---- MODULE Spec2Model ----
\* Verification model of the veritas audit front end: the spreadsheet address
\* codec (ExcelViewer.jsx: colToLetter, a1ToRC), the multi-cell reference
\* parser and finding selection of Preview.jsx, and the tile cache
\* (useExcelTiles.js) as driven by the grid viewer (ExcelViewer.jsx).
EXTENDS Integers, Sequences, FiniteSets, TLC

VARIABLES
    \* ---- codec harness: one call of a pure function on one input
    input,          \* the JavaScript value handed to the function
    called,         \* which function was applied ("none" before the call)
    output,         \* what it returned
    \* ---- Preview.jsx
    preview,        \* prop: the audit's detailed_results
    sessionId,      \* prop: the audit session id ("" when absent)
    active,         \* state: the finding shown in the grid viewer, or null
    availableSheets,\* state: the sheet names of the session's Excel file
    excelFileId,    \* state: the Excel file id, or null
    pvLoading,      \* state: loading
    pvError,        \* state: error (null or a message)
    loaders,        \* the runs of loadExcelData that are awaiting a response
    loadsStarted,   \* how many runs of loadExcelData were started
    lastEvent,      \* the handler or continuation that ran last
    \* ---- ExcelViewer.jsx and useExcelTiles.js
    fileId,         \* prop: the Excel file shown
    activeSheet,    \* prop: the sheet the parent asks for (<<>> when absent)
    meta,           \* state: the sheets of the file, as loaded
    sheet,          \* state: the sheet shown (<<>> before any is chosen)
    loading,        \* state: loading
    error,          \* state: error (nullString or a message)
    zoom,           \* state: zoom
    tilesLoaded,    \* state: tilesLoaded
    cache,          \* useExcelTiles: the Map, its entries in insertion order
    metaReqs,       \* getExcelMeta requests awaiting their response
    timer,          \* the preload timer of the last run of the preload effect
    inflight,       \* getExcelPage requests awaiting their response
    passes,         \* preload passes awaiting Promise.allSettled
    nextId,         \* the identity the next requested tile object will have
    lastCalls,      \* history: the fetchTile calls of the step just taken
    lastStored,     \* history: per key, the tile object the last completed
                    \* fetchTile stored since the last clearCache (0: none)
    highlightedCells, \* prop: the cells to highlight, each with its sheet
    scrollPos,      \* state: scrollPos, in half pixels
    scrollTimers,   \* the 200 ms timers of the scroll effect, oldest first
    lastScrollTo,   \* history: the last scrollTo call made on the grid
    userEvents,     \* history: the prop changes and clicks so far
    awaitRefetch,   \* history: cells of a sheet that were cached when the
                    \* viewer switched away from it, and no fetchTile issued
                    \* for that sheet after the switch has completed yet
    awaitPreload,   \* history: the sheet a tab click or the activeSheet
                    \* prop switched the viewer to, until preloadVisibleTiles
                    \* runs for it (<<>> when there is none)
    \* ---- InteractiveValidation.jsx (ComprehensiveValidation)
    validationData, \* state: validationData (null until loaded)
    pdfValues,      \* state: pdfValues
    ovLoading,      \* state: loading
    currentPage,    \* state: currentPage, 0-based
    ovZoom,         \* state: zoom, in hundredths
    selectedValueId,\* state: selectedValueId, or nullString
    hoveredValueId, \* state: hoveredValueId, or nullString
    showBoundingBoxes, \* state: showBoundingBoxes
    validationMode, \* state: validationMode, "pdf" or "audit"
    filters,        \* state: filters
    sorting,        \* state: sorting
    mainCanvas,     \* width and height of the page canvas element
    overlayCanvas,  \* width and height of the overlay canvas element
    drawn,          \* what the overlay canvas shows: the boxes of the last
                    \* drawValueOverlays, in drawing order
    imgLoads,       \* page images created by drawDocumentPage, not loaded yet
    lastClick,      \* history: the last click handled on the overlay
    ovEvents        \* history: the user's actions on the page so far

codecVars == <<input, called, output>>
previewVars == <<preview, sessionId, active, availableSheets, excelFileId,
                 pvLoading, pvError, loaders, loadsStarted, lastEvent>>
viewerVars == <<fileId, activeSheet, meta, sheet, loading, error, zoom,
                tilesLoaded, cache, metaReqs, timer, inflight, passes, nextId,
                lastCalls, lastStored, userEvents, awaitRefetch,
                highlightedCells, scrollPos, scrollTimers, lastScrollTo,
                awaitPreload>>

overlayVars == <<validationData, pdfValues, ovLoading, currentPage, ovZoom,
                 selectedValueId, hoveredValueId, showBoundingBoxes,
                 validationMode, filters, sorting, mainCanvas, overlayCanvas,
                 drawn, imgLoads, lastClick, ovEvents>>

vars == <<codecVars, previewVars, viewerVars, overlayVars>>

\* ------------------------------------------------------------------
\* JavaScript values and characters
\* ------------------------------------------------------------------

\* JavaScript null where the other values are objects (a1ToRC's "no match",
\* getCell's "cache miss", no active finding) ...
null == [isNull |-> TRUE]
\* ... and where the other values are strings (an error message, a file id):
\* TLC compares only values of one kind.
nullString == "null"

JsString(chars) == [type |-> "string", chars |-> chars]
JsNumber(n) == [type |-> "number", num |-> n]
JsNull == [type |-> "null"]
JsUndefined == [type |-> "undefined"]

\* The codec harness when no function is under study.
CodecIdle ==
    /\ input = JsNull
    /\ called = "none"
    /\ output = null

UpperAZ == <<"A","B","C","D","E","F","G","H","I","J","K","L","M",
             "N","O","P","Q","R","S","T","U","V","W","X","Y","Z">>
LowerAZ == <<"a","b","c","d","e","f","g","h","i","j","k","l","m",
             "n","o","p","q","r","s","t","u","v","w","x","y","z">>
Digits09 == <<"0","1","2","3","4","5","6","7","8","9">>

Range(seq) == {seq[i] : i \in 1..Len(seq)}
IndexIn(seq, ch) == CHOOSE i \in 1..Len(seq) : seq[i] = ch

\* The regular expression classes [A-Z] and \d (ASCII digits only).
IsUpperLetter(ch) == ch \in Range(UpperAZ)
IsDigit(ch) == ch \in Range(Digits09)

\* ch.charCodeAt(0) for the characters [A-Z]: "A" is 65.
charCodeAt(ch) == 64 + IndexIn(UpperAZ, ch)

\* String.fromCharCode(code) for 65..90.
fromCharCode(code) == UpperAZ[code - 64]

\* The character U+00DF (LATIN SMALL LETTER SHARP S), named by its code point.
SharpS == "U+00DF"

\* String.prototype.toUpperCase of one character. It maps a-z to A-Z, leaves
\* ASCII digits and punctuation alone, and expands the sharp s to the two
\* characters "SS" (Unicode SpecialCasing).
upperOfChar(ch) ==
    IF ch \in Range(LowerAZ) THEN <<UpperAZ[IndexIn(LowerAZ, ch)]>>
    ELSE IF ch = SharpS THEN <<"S", "S">>
    ELSE <<ch>>

\* String.prototype.toLowerCase: A-Z to a-z, every other character of the
\* model's alphabet unchanged.
lowerOfChar(ch) ==
    IF ch \in Range(UpperAZ) THEN LowerAZ[IndexIn(UpperAZ, ch)] ELSE ch

toLowerCase(s) == [i \in 1..Len(s) |-> lowerOfChar(s[i])]

RECURSIVE toUpperCase(_)
toUpperCase(s) ==
    IF s = <<>> THEN <<>> ELSE upperOfChar(Head(s)) \o toUpperCase(Tail(s))

\* parseInt(digits, 10) on a string of ASCII digits.
RECURSIVE parseInt10(_)
parseInt10(ds) ==
    IF ds = <<>> THEN 0
    ELSE parseInt10(SubSeq(ds, 1, Len(ds) - 1)) * 10
         + (IndexIn(Digits09, ds[Len(ds)]) - 1)

\* The decimal digits of a natural number (Number.prototype.toString).
RECURSIVE DecimalDigits(_)
DecimalDigits(n) ==
    IF n < 10 THEN <<Digits09[n + 1]>>
    ELSE DecimalDigits(n \div 10) \o <<Digits09[(n % 10) + 1]>>

\* String(v): the text of a JavaScript value.
String(v) ==
    CASE v.type = "string" -> v.chars
      [] v.type = "number" -> DecimalDigits(v.num)
      [] v.type = "null" -> <<"n","u","l","l">>
      [] v.type = "undefined" -> <<"u","n","d","e","f","i","n","e","d">>

\* ------------------------------------------------------------------
\* Address codec (ExcelViewer.jsx)
\* ------------------------------------------------------------------

\* A faulty colToLetterLoop: the remainder taken of col instead of col - 1
\* (ordinary base 26, which has a zero digit).
RECURSIVE colToLetterLoopZeroDigit(_, _)
colToLetterLoopZeroDigit(col, letter) ==
    IF col > 0
    THEN LET remainder == col % 26
         IN colToLetterLoopZeroDigit(col \div 26,
                                     <<fromCharCode(65 + remainder)>> \o letter)
    ELSE letter

\* colToLetter: the while loop, one iteration per call.
RECURSIVE colToLetterLoop(_, _)
colToLetterLoop(col, letter) ==
    IF col > 0
    THEN LET remainder == (col - 1) % 26
         IN colToLetterLoop((col - 1) \div 26,
                            <<fromCharCode(65 + remainder)>> \o letter)
    ELSE letter

colToLetter(col) == colToLetterLoop(col, <<>>)

\* The letter-to-column loop of a1ToRC: col = col * 26 + (code - 64).
RECURSIVE lettersToCol(_, _)
lettersToCol(letters, col) ==
    IF letters = <<>> THEN col
    ELSE lettersToCol(Tail(letters), col * 26 + (charCodeAt(Head(letters)) - 64))

\* exec of /^([A-Z]+)(\d+)$/ on s: the split point k (letters are s[1..k],
\* digits s[k+1..Len(s)]), or 0 when s does not match.
MatchLettersDigits(s) ==
    LET ks == {k \in 1..(Len(s) - 1) :
                 /\ \A i \in 1..k : IsUpperLetter(s[i])
                 /\ \A i \in (k + 1)..Len(s) : IsDigit(s[i])}
    IN IF ks = {} THEN 0 ELSE CHOOSE k \in ks : TRUE

a1ToRC(a1) ==
    LET s == toUpperCase(String(a1))
        k == MatchLettersDigits(s)
    IN IF k = 0 THEN null
       ELSE [row |-> parseInt10(SubSeq(s, k + 1, Len(s))),
             col |-> lettersToCol(SubSeq(s, 1, k), 0)]

\* ------------------------------------------------------------------
\* Multi-cell reference parser (Preview.jsx)
\* ------------------------------------------------------------------

\* The characters String.prototype.trim removes, as far as the model's
\* alphabet has them.
WhiteSpace == {" "}

\* cellPattern.test(cell) for /^[A-Z]+\d+$/i. The pattern has no u flag, so
\* the i flag folds only a-z onto A-Z; no other character matches [A-Z].
cellPatternTest(cell) ==
    \E k \in 1..(Len(cell) - 1) :
        /\ \A i \in 1..k : cell[i] \in Range(UpperAZ) \cup Range(LowerAZ)
        /\ \A i \in (k + 1)..Len(cell) : IsDigit(cell[i])

\* s.split('!'): the pieces between the delimiters, empty pieces included.
RECURSIVE splitBang(_, _)
splitBang(s, piece) ==
    IF s = <<>> THEN <<piece>>
    ELSE IF Head(s) = "!" THEN <<piece>> \o splitBang(Tail(s), <<>>)
    ELSE splitBang(Tail(s), Append(piece, Head(s)))

RECURSIVE trimStart(_)
trimStart(s) ==
    IF s # <<>> /\ Head(s) \in WhiteSpace THEN trimStart(Tail(s)) ELSE s

RECURSIVE trimEnd(_)
trimEnd(s) ==
    IF s # <<>> /\ s[Len(s)] \in WhiteSpace
    THEN trimEnd(SubSeq(s, 1, Len(s) - 1)) ELSE s

\* A faulty trim: only leading white space is removed.
trimLeadingOnly(s) == trimStart(s)

trim(s) == trimEnd(trimStart(s))

\* cells.filter(c => c.length > 0)
RECURSIVE filterNonEmpty(_)
filterNonEmpty(seq) ==
    IF seq = <<>> THEN <<>>
    ELSE (IF Len(Head(seq)) > 0 THEN <<Head(seq)>> ELSE <<>>)
         \o filterNonEmpty(Tail(seq))

\* cells.filter(cell => cellPattern.test(cell))
RECURSIVE filterValid(_)
filterValid(seq) ==
    IF seq = <<>> THEN <<>>
    ELSE (IF cellPatternTest(Head(seq)) THEN <<Head(seq)>> ELSE <<>>)
         \o filterValid(Tail(seq))

\* !cellRef for the values of the model: null, undefined, "" and 0 are falsy.
Falsy(v) ==
    \/ v.type \in {"null", "undefined"}
    \/ v.type = "string" /\ v.chars = <<>>
    \/ v.type = "number" /\ v.num = 0

parseMultipleCells(cellRef) ==
    IF Falsy(cellRef) \/ cellRef.type # "string" THEN <<>>
    ELSE LET pieces == splitBang(cellRef.chars, <<>>)
             trimmed == [i \in 1..Len(pieces) |-> trim(pieces[i])]
             cells == filterNonEmpty(trimmed)
         IN filterValid(cells)

\* ------------------------------------------------------------------
\* The backend as the front end sees it
\* ------------------------------------------------------------------

S1 == <<"S", "1">>
S2 == <<"D", "2">>

Files == {"F1", "F2"}

\* /excel/meta: the sheets of each file. Both files have a sheet named S1.
FileSheets(f) ==
    IF f = "F1"
    THEN <<[name |-> S1, rows |-> 2, cols |-> 6],
           [name |-> S2, rows |-> 1, cols |-> 1]>>
    ELSE <<[name |-> S2, rows |-> 1, cols |-> 7],
           [name |-> S1, rows |-> 1, cols |-> 2]>>

SheetNames(m) == [k \in 1..Len(m) |-> m[k].name]

\* /audit/results and the validation data: the Excel file of a session.
FileOfSession(sid) == IF sid = "a1" THEN "F1" ELSE "F2"

\* ------------------------------------------------------------------
\* useExcelTiles.js: the tile cache
\* ------------------------------------------------------------------

\* Tile height is the hook's default.  Tile width is the hook's default of
\* 250 scaled down, and the viewer is as narrow as Width, so that a preload
\* pass still spans more than one tile.
TileRows == 1000
TileCols == 5

RemoveAt(seq, i) == SubSeq(seq, 1, i - 1) \o SubSeq(seq, i + 1, Len(seq))

Min(a, b) == IF a < b THEN a ELSE b
Max(a, b) == IF a > b THEN a ELSE b

\* The value the backend holds in a cell: it names where it came from.
CellValue(f, sh, row, col) == [file |-> f, sheet |-> sh, row |-> row, col |-> col]

SheetOf(f, sh) ==
    LET m == FileSheets(f)
        hits == {k \in 1..Len(m) : m[k].name = sh}
    IN  IF hits = {} THEN null ELSE m[CHOOSE k \in hits : TRUE]

\* The page the backend answers a getExcelPage request with: the requested
\* window, its far edges clipped to the sheet's last row and column.
\* data is the array of rows; JavaScript index i is index i + 1 here.
ServerPage(q) ==
    LET sh == SheetOf(q.file, q.sheet)
        r1 == Min(q.r1, sh.rows)
        c1 == Min(q.c1, sh.cols)
    IN  [id |-> q.id, sheet |-> q.sheet,
         r0 |-> q.r0, r1 |-> r1, c0 |-> q.c0, c1 |-> c1,
         data |-> [i \in 1..Max(0, r1 - q.r0 + 1) |->
                     [j \in 1..Max(0, c1 - q.c0 + 1) |->
                        CellValue(q.file, q.sheet, q.r0 + i - 1, q.c0 + j - 1)]]]

\* `${sheet}:${r0}:${c0}`
TileKey(sh, r0, c0) == <<sh, r0, c0>>

CacheIndex(c, key) == {k \in 1..Len(c) : c[k].key = key}
CacheHas(c, key) == CacheIndex(c, key) # {}
CacheGet(c, key) == c[CHOOSE k \in CacheIndex(c, key) : TRUE].page

\* Map.set: a present key keeps its place, a new key goes last.
CacheSet(c, key, page) ==
    IF CacheHas(c, key)
    THEN [k \in 1..Len(c) |-> IF c[k].key = key
                              THEN [key |-> key, page |-> page] ELSE c[k]]
    ELSE Append(c, [key |-> key, page |-> page])

\* A faulty clearCache: the entries stay.
clearCacheKeeps(c) == c

\* cache.current.clear()
clearCache(c) == <<>>

\* A faulty bounds test: the first row of the page is left out.
pageCoversExclusive(page, row, col) ==
    /\ page.r0 < row /\ row <= page.r1
    /\ page.c0 <= col /\ col <= page.c1

pageCovers(page, row, col) ==
    /\ page.r0 <= row /\ row <= page.r1
    /\ page.c0 <= col /\ col <= page.c1

\* A faulty getCell loop: pages of other sheets are not skipped.
RECURSIVE getCellAnySheetFrom(_, _, _, _, _)
getCellAnySheetFrom(c, k, sh, row, col) ==
    IF k > Len(c) THEN null
    ELSE IF pageCovers(c[k].page, row, col)
         THEN c[k].page.data[row - c[k].page.r0 + 1][col - c[k].page.c0 + 1]
         ELSE getCellAnySheetFrom(c, k + 1, sh, row, col)

\* The loop of getCell over cache.values(), from entry k on.
RECURSIVE getCellFrom(_, _, _, _, _)
getCellFrom(c, k, sh, row, col) ==
    IF k > Len(c) THEN null
    ELSE IF c[k].page.sheet # sh THEN getCellFrom(c, k + 1, sh, row, col)
    ELSE IF pageCovers(c[k].page, row, col)
         THEN c[k].page.data[row - c[k].page.r0 + 1][col - c[k].page.c0 + 1]
         ELSE getCellFrom(c, k + 1, sh, row, col)

getCell(c, sh, row, col) == getCellFrom(c, 1, sh, row, col)

\* A faulty fetchTile: the cache is not consulted.
fetchTileAlwaysRequests(c, f, sh, r0, c0, id) ==
    [key |-> TileKey(sh, r0, c0), issued |-> TRUE, returned |-> 0,
     request |-> [id |-> id, file |-> f, sheet |-> sh,
                  r0 |-> r0, r1 |-> r0 + TileRows - 1,
                  c0 |-> c0, c1 |-> c0 + TileCols - 1, old |-> FALSE]]

\* fetchTile up to its first await: a hit returns the cached object and
\* requests nothing, a miss sends the request that will carry object id.
\* `old` is history: no switch away from the sheet has happened since.
fetchTile(c, f, sh, r0, c0, id) ==
    LET key == TileKey(sh, r0, c0)
    IN  IF CacheHas(c, key)
        THEN [key |-> key, issued |-> FALSE,
              returned |-> CacheGet(c, key).id, request |-> null]
        ELSE [key |-> key, issued |-> TRUE, returned |-> 0,
              request |-> [id |-> id, file |-> f, sheet |-> sh,
                           r0 |-> r0, r1 |-> r0 + TileRows - 1,
                           c0 |-> c0, c1 |-> c0 + TileCols - 1, old |-> FALSE]]

\* ------------------------------------------------------------------
\* ExcelViewer.jsx: geometry and the preload pass
\* ------------------------------------------------------------------

HEADER_SIZE == 30
FOOTER_HEIGHT == 40
BUFFER_ROWS == 100
BUFFER_COLS == 26

\* The height and width props: the default height, and a narrow viewer.
Height == 600
Width == 130

\* Math.round and Math.ceil on the quotients the viewer forms
\* (all operands positive).
RoundDiv(a, b) == (2 * a + b) \div (2 * b)
CeilDiv(a, b) == (a + b - 1) \div b

ROW_HEIGHT(z) == RoundDiv(28 * z, 100)
COL_WIDTH(z) == RoundDiv(100 * z, 100)

dims(m, sh) ==
    LET hits == {k \in 1..Len(m) : m[k].name = sh}
        s == IF hits = {} THEN null ELSE m[CHOOSE k \in hits : \A h \in hits : k <= h]
    IN  [rows |-> (IF s = null \/ s.rows = 0 THEN 1 ELSE s.rows) + BUFFER_ROWS,
         cols |-> (IF s = null \/ s.cols = 0 THEN 1 ELSE s.cols) + BUFFER_COLS]

\* A faulty colLoop: the stride is one column wider than a tile.
RECURSIVE colLoopWideStride(_, _, _)
colLoopWideStride(r, c, limit) ==
    IF c < limit
    THEN <<[r0 |-> r + 1, c0 |-> c + 1]>>
         \o colLoopWideStride(r, c + TileCols + 1, limit)
    ELSE <<>>

RECURSIVE colLoop(_, _, _)
colLoop(r, c, limit) ==
    IF c < limit
    THEN <<[r0 |-> r + 1, c0 |-> c + 1]>> \o colLoop(r, c + TileCols, limit)
    ELSE <<>>

RECURSIVE rowLoop(_, _, _)
rowLoop(r, rowLimit, colLimit) ==
    IF r < rowLimit
    THEN colLoop(r, 0, colLimit) \o rowLoop(r + TileRows, rowLimit, colLimit)
    ELSE <<>>

\* The tile origins preloadVisibleTiles asks for, in the order of its loops.
preloadOrigins(m, sh, z) ==
    LET gridHeight == Height - HEADER_SIZE - FOOTER_HEIGHT
        gridWidth == Width - HEADER_SIZE
        visibleRows == CeilDiv(gridHeight, ROW_HEIGHT(z)) + 5
        visibleCols == CeilDiv(gridWidth, COL_WIDTH(z)) + 5
    IN  rowLoop(0, Min(visibleRows, dims(m, sh).rows),
                   Min(visibleCols, dims(m, sh).cols))

\* The fetchTile calls of one pass: the cache does not change while the
\* loops run, and each miss takes the next object identity.
RECURSIVE preloadCalls(_, _, _, _, _, _)
preloadCalls(origins, k, c, f, sh, id) ==
    IF k > Len(origins) THEN <<>>
    ELSE LET call == fetchTile(c, f, sh, origins[k].r0, origins[k].c0, id)
         IN  <<call>> \o preloadCalls(origins, k + 1, c, f, sh,
                                      IF call.issued THEN id + 1 ELSE id)

NoTimer == [pending |-> FALSE, file |-> nullString]

\* The preload effect: its cleanup has cleared the timer of the run before,
\* and it sets a new one only past its guard.  The callback keeps the
\* fetchTile of this render, hence this render's fileId.
preloadEffect(sh, tl, m, f) ==
    IF sh # <<>> /\ ~tl /\ Len(m) > 0
    THEN [pending |-> TRUE, file |-> f]
    ELSE NoTimer

\* The activeSheet effect switches when the prop names a sheet of meta
\* other than the one shown.
activeSheetSwitches(as, m, sh) ==
    /\ as # <<>>
    /\ as \in Range(SheetNames(m))
    /\ sh # as

NoneStored == [key \in {} |-> 0]

StoredAt(ls, key) == IF key \in DOMAIN ls THEN ls[key] ELSE 0

\* History kept at a switch from sheet `from` to another sheet: the cells
\* the cache held for `from`, and the requests for `from` now in flight.
CellsCached(c, sh) ==
    UNION { { [sheet |-> sh, row |-> row, col |-> col] :
                row \in c[k].page.r0 .. c[k].page.r1,
                col \in c[k].page.c0 .. c[k].page.c1 } :
            k \in {j \in 1..Len(c) : c[j].page.sheet = sh} }

\* The cells awaited after a switch away from sheet sh: those of the other
\* sheets as before, those of sh as cached at this switch.
AwaitAfterSwitch(aw, c, sh) ==
    {x \in aw : x.sheet # sh} \cup CellsCached(c, sh)

MarkOld(reqs, sh) ==
    { [q EXCEPT !.old = q.old \/ q.sheet = sh] : q \in reqs }

\* Bounds of the exploration: tile objects requested in all, and prop
\* changes and clicks in all.
MaxReq == 4
MaxUserEvents == 2

ViewerSheets == {<<>>, S1, S2}

Rendered == ~loading /\ error = nullString

\* Pixel offsets are kept in half pixels: the scroll effect halves the
\* viewport and cell sizes, which may be odd.
ZeroScroll == [scrollLeft |-> 0, scrollTop |-> 0]

scrollVars == <<highlightedCells, scrollPos, lastScrollTo>>

\* The scroll effect up to its setTimeout: the timers it adds (none or
\* one), each with the rowIdx, colIdx and cell sizes of this render.
scrollEffect(hl, sh, z, tl, m, gridMounted) ==
    LET onSheet == {k \in 1..Len(hl) : hl[k].sheet = sh}
        cellToScroll == hl[CHOOSE k \in onSheet : \A j \in onSheet : k <= j]
        parsed == a1ToRC(JsString(cellToScroll.cell))
        rowIdx == parsed.row - 1
        colIdx == parsed.col - 1
    IN  IF Len(hl) = 0 \/ ~gridMounted \/ ~tl THEN <<>>
        ELSE IF onSheet = {} THEN <<>>
        ELSE IF parsed = null THEN <<>>
        ELSE IF \/ rowIdx < 0 \/ rowIdx >= dims(m, sh).rows
                \/ colIdx < 0 \/ colIdx >= dims(m, sh).cols THEN <<>>
        ELSE <<[rowIdx |-> rowIdx, colIdx |-> colIdx, zoom |-> z,
                rows |-> dims(m, sh).rows, cols |-> dims(m, sh).cols]>>

\* highlightedCellsSet: the upper-cased text of every cell of the shown
\* sheet that a1ToRC parses.
highlightedCellsSet(hl, sh) ==
    {toUpperCase(hl[k].cell) :
        k \in {j \in 1..Len(hl) : /\ hl[j].sheet = sh
                                  /\ a1ToRC(JsString(hl[j].cell)) # null}}

\* Cell: the reference of the cell at row r, column c, and whether it is
\* drawn highlighted.
cellRef(r, c) == colToLetter(c) \o DecimalDigits(r)
isHighlighted(hl, sh, r, c) == cellRef(r, c) \in highlightedCellsSet(hl, sh)

\* The size of the grid's outer element.
clientHeight == Height - HEADER_SIZE - FOOTER_HEIGHT
clientWidth == Width - HEADER_SIZE

\* A faulty scrollTarget: the offsets are added to the current position.
scrollTargetRelative(t) ==
    [scrollTop |-> scrollPos.scrollTop
                     + Max(0, 2 * t.rowIdx * ROW_HEIGHT(t.zoom)
                                - Max(0, clientHeight - ROW_HEIGHT(t.zoom))),
     scrollLeft |-> scrollPos.scrollLeft
                      + Max(0, 2 * t.colIdx * COL_WIDTH(t.zoom)
                                 - Max(0, clientWidth - COL_WIDTH(t.zoom)))]

\* The offsets the timer callback passes to scrollTo, in half pixels.
scrollTarget(t) ==
    LET targetTop == 2 * t.rowIdx * ROW_HEIGHT(t.zoom)
                       - Max(0, clientHeight - ROW_HEIGHT(t.zoom))
        targetLeft == 2 * t.colIdx * COL_WIDTH(t.zoom)
                        - Max(0, clientWidth - COL_WIDTH(t.zoom))
    IN  [scrollTop |-> Max(0, targetTop), scrollLeft |-> Max(0, targetLeft)]

ViewerIdle ==
    /\ fileId = nullString /\ activeSheet = <<>> /\ meta = <<>>
    /\ sheet = <<>> /\ loading = FALSE /\ error = nullString
    /\ zoom = 100 /\ tilesLoaded = FALSE /\ cache = <<>>
    /\ metaReqs = <<>> /\ timer = NoTimer /\ inflight = {}
    /\ passes = {} /\ nextId = 1 /\ lastCalls = <<>>
    /\ lastStored = NoneStored /\ awaitRefetch = {} /\ userEvents = 0
    /\ highlightedCells = <<>> /\ scrollPos = ZeroScroll
    /\ scrollTimers = <<>> /\ lastScrollTo = null
    /\ awaitPreload = <<>>

\* The viewer once mounted: state as useState leaves it, the metadata
\* effect has sent its request, the other effects have returned at their
\* guards (meta is empty).
ViewerInit ==
    /\ fileId \in Files
    /\ activeSheet \in ViewerSheets
    /\ meta = <<>>
    /\ sheet = activeSheet
    /\ loading = TRUE
    /\ error = nullString
    /\ zoom = 100
    /\ tilesLoaded = FALSE
    /\ cache = <<>>
    /\ metaReqs = <<[file |-> fileId, sheet |-> sheet, activeSheet |-> activeSheet]>>
    /\ timer = NoTimer
    /\ inflight = {}
    /\ passes = {}
    /\ nextId = 1
    /\ lastCalls = <<>>
    /\ lastStored = NoneStored
    /\ awaitRefetch = {}
    /\ userEvents = 0
    /\ scrollPos = ZeroScroll
    /\ scrollTimers = <<>>
    /\ lastScrollTo = null
    /\ awaitPreload = <<>>

\* ------------------------------------------------------------------
\* ExcelViewer.jsx: handlers, effects and continuations
\* ------------------------------------------------------------------

\* The fileId prop changes: the metadata effect runs again.  No dependency
\* of the other effects changed, so a pending preload timer stays as it is.
FileChange ==
    \E f \in Files :
        /\ f # fileId
        /\ fileId' = f
        /\ loading' = TRUE
        /\ UNCHANGED scrollTimers
        /\ error' = nullString
        /\ metaReqs' = Append(metaReqs, [file |-> f, sheet |-> sheet,
                                         activeSheet |-> activeSheet])
        /\ lastCalls' = <<>>
        /\ UNCHANGED <<activeSheet, meta, sheet, zoom, tilesLoaded, cache, timer,
                       inflight, passes, nextId, lastStored, awaitRefetch,
                       scrollVars, codecVars, previewVars,
                       overlayVars, awaitPreload>>

\* The activeSheet prop changes: the activeSheet effect runs again, and the
\* preload effect after it when sheet or tilesLoaded changed.
ActiveSheetChange ==
    \E a \in ViewerSheets :
        /\ a # activeSheet
        /\ activeSheet' = a
        /\ lastCalls' = <<>>
        /\ UNCHANGED scrollTimers
        /\ IF activeSheetSwitches(a, meta, sheet)
           THEN /\ sheet' = a
                /\ tilesLoaded' = FALSE
                /\ cache' = clearCache(cache)
                /\ lastStored' = NoneStored
                /\ timer' = preloadEffect(a, FALSE, meta, fileId)
                /\ awaitRefetch' = AwaitAfterSwitch(awaitRefetch, cache, sheet)
                /\ inflight' = MarkOld(inflight, sheet)
                /\ awaitPreload' = a
           ELSE UNCHANGED <<sheet, tilesLoaded, cache, lastStored, timer,
                            awaitRefetch, inflight, awaitPreload>>
        /\ UNCHANGED <<fileId, meta, loading, error, zoom, metaReqs, passes,
                       nextId, scrollVars, codecVars, previewVars,
                       overlayVars>>

\* getExcelMeta resolves, under the sheet and activeSheet of the render
\* that sent it.  meta changed, so the activeSheet effect and the preload
\* effect both run on the new render.
ViewerMetaResolved ==
    \E i \in 1..Len(metaReqs) :
        LET req == metaReqs[i]
            m == FileSheets(req.file)
            firstSheet == IF req.activeSheet # <<>> THEN req.activeSheet
                          ELSE m[1].name
            sheet1 == IF req.sheet = <<>> /\ Len(m) > 0 THEN firstSheet ELSE sheet
            switch == activeSheetSwitches(activeSheet, m, sheet1)
        IN  /\ meta' = m
            /\ loading' = FALSE
            /\ metaReqs' = RemoveAt(metaReqs, i)
            /\ scrollTimers' = scrollTimers \o
                  (IF sheet1 # sheet
                   THEN scrollEffect(highlightedCells, sheet1, zoom, tilesLoaded,
                                     m, error = nullString)
                   ELSE <<>>)
            /\ sheet' = IF switch THEN activeSheet ELSE sheet1
            /\ tilesLoaded' = IF switch THEN FALSE ELSE tilesLoaded
            /\ cache' = IF switch THEN clearCache(cache) ELSE cache
            /\ lastStored' = IF switch THEN NoneStored ELSE lastStored
            /\ timer' = preloadEffect(sheet', tilesLoaded', m, fileId)
            /\ awaitRefetch' = IF switch /\ sheet' # sheet
                               THEN AwaitAfterSwitch(awaitRefetch, cache, sheet)
                               ELSE awaitRefetch
            /\ inflight' = IF switch /\ sheet' # sheet
                           THEN MarkOld(inflight, sheet) ELSE inflight
            /\ awaitPreload' = IF sheet' # sheet THEN <<>> ELSE awaitPreload
            /\ lastCalls' = <<>>
            /\ UNCHANGED <<fileId, activeSheet, error, zoom, passes, nextId,
                           userEvents, scrollVars, codecVars, previewVars,
                       overlayVars>>

\* A faulty ViewerMetaRejected: the catch handler sets the message and
\* leaves loading as it was.
ViewerMetaRejectedKeepsLoading ==
    \E i \in 1..Len(metaReqs) :
        /\ error' = "Failed to load Excel file"
        /\ metaReqs' = RemoveAt(metaReqs, i)
        /\ UNCHANGED scrollTimers
        /\ lastCalls' = <<>>
        /\ UNCHANGED <<fileId, activeSheet, meta, sheet, loading, zoom, tilesLoaded,
                       cache, timer, inflight, passes, nextId, lastStored,
                       awaitRefetch, userEvents, scrollVars, codecVars, previewVars,
                       overlayVars, awaitPreload>>

ViewerMetaRejected ==
    \E i \in 1..Len(metaReqs) :
        /\ error' = "Failed to load Excel file"
        /\ loading' = FALSE
        /\ metaReqs' = RemoveAt(metaReqs, i)
        /\ UNCHANGED scrollTimers
        /\ lastCalls' = <<>>
        /\ UNCHANGED <<fileId, activeSheet, meta, sheet, zoom, tilesLoaded,
                       cache, timer, inflight, passes, nextId, lastStored,
                       awaitRefetch, userEvents, scrollVars, codecVars, previewVars,
                       overlayVars, awaitPreload>>

\* A sheet tab is clicked (the tabs are there once the grid is rendered).
TabClick ==
    \E s \in Range(SheetNames(meta)) :
        /\ Rendered
        /\ sheet' = s
        /\ tilesLoaded' = FALSE
        /\ UNCHANGED scrollTimers
        /\ cache' = clearCache(cache)
        /\ lastStored' = NoneStored
        /\ timer' = IF sheet # s \/ tilesLoaded
                    THEN preloadEffect(s, FALSE, meta, fileId) ELSE timer
        /\ awaitRefetch' = IF s # sheet
                           THEN AwaitAfterSwitch(awaitRefetch, cache, sheet)
                           ELSE awaitRefetch
        /\ inflight' = IF s # sheet THEN MarkOld(inflight, sheet) ELSE inflight
        /\ awaitPreload' = IF s # sheet THEN s ELSE awaitPreload
        /\ lastCalls' = <<>>
        /\ UNCHANGED <<fileId, activeSheet, meta, loading, error, zoom,
                       metaReqs, passes, nextId, scrollVars, codecVars, previewVars,
                       overlayVars>>

\* setZoom(z): ROW_HEIGHT and COL_WIDTH change with zoom, and the preload
\* effect runs again when they do.
SetZoom(z) ==
    /\ Rendered
    /\ zoom' = z
    /\ scrollTimers' = scrollTimers \o
          (IF z # zoom
           THEN scrollEffect(highlightedCells, sheet, z, tilesLoaded, meta, TRUE)
           ELSE <<>>)
    /\ timer' = IF z # zoom THEN preloadEffect(sheet, tilesLoaded, meta, fileId)
                ELSE timer
    /\ lastCalls' = <<>>
    /\ UNCHANGED <<fileId, activeSheet, meta, sheet, loading, error,
                   tilesLoaded, cache, metaReqs, inflight, passes, nextId,
                   lastStored, awaitRefetch, scrollVars, codecVars, previewVars,
                       overlayVars, awaitPreload>>

\* A faulty handleZoomIn: no upper clamp.
handleZoomInUnclamped == SetZoom(zoom + 10)

handleZoomIn == SetZoom(Min(200, zoom + 10))
handleZoomOut == SetZoom(Max(50, zoom - 10))
handleZoomReset == SetZoom(100)

\* The preload timer fires: preloadVisibleTiles runs to its await.  With
\* nothing to wait for, allSettled resolves at once.
PreloadFire ==
    /\ timer.pending
    /\ \E calls \in {preloadCalls(preloadOrigins(meta, sheet, zoom), 1, cache,
                                  timer.file, sheet, nextId)} :
       \E sent \in {{calls[k].request :
                       k \in {j \in 1..Len(calls) : calls[j].issued}}} :
        /\ nextId + Cardinality(sent) - 1 <= MaxReq
        /\ inflight' = inflight \cup sent
        /\ nextId' = nextId + Cardinality(sent)
        /\ passes' = IF sent = {} THEN passes
                     ELSE passes \cup {{q.id : q \in sent}}
        /\ tilesLoaded' = IF sent = {} THEN TRUE ELSE tilesLoaded
        /\ scrollTimers' = scrollTimers \o
              (IF sent = {}
               THEN scrollEffect(highlightedCells, sheet, zoom, TRUE, meta, Rendered)
               ELSE <<>>)
        /\ timer' = NoTimer
        /\ lastCalls' = calls
        /\ awaitPreload' = IF awaitPreload = sheet THEN <<>> ELSE awaitPreload
        /\ UNCHANGED <<fileId, activeSheet, meta, sheet, loading, error, zoom,
                       cache, metaReqs, lastStored, awaitRefetch, userEvents,
                       scrollVars, codecVars, previewVars,
                       overlayVars>>

\* A fetchTile promise settles: its pass loses it, and the pass that has
\* lost its last one sets tilesLoaded, whatever sheet is shown by then.
Settle(q) ==
    LET mine == {p \in passes : q.id \in p}
        left == {p \ {q.id} : p \in mine}
    IN  /\ inflight' = inflight \ {q}
        /\ passes' = (passes \ mine) \cup (left \ {{}})
        /\ tilesLoaded' = IF {} \in left THEN TRUE ELSE tilesLoaded
        /\ scrollTimers' = scrollTimers \o
              (IF {} \in left /\ ~tilesLoaded
               THEN scrollEffect(highlightedCells, sheet, zoom, TRUE, meta, Rendered)
               ELSE <<>>)
        /\ timer' = IF {} \in left /\ ~tilesLoaded THEN NoTimer ELSE timer
        /\ lastCalls' = <<>>

\* getExcelPage resolves: fetchTile stores the page under its key.
TileResolved ==
    \E q \in inflight :
        LET key == TileKey(q.sheet, q.r0, q.c0) IN
        /\ SheetOf(q.file, q.sheet) # null
        /\ cache' = CacheSet(cache, key, ServerPage(q))
        /\ lastStored' = [k \in DOMAIN lastStored \cup {key} |->
                            IF k = key THEN q.id ELSE lastStored[k]]
        /\ awaitRefetch' = IF q.old THEN awaitRefetch
                           ELSE {x \in awaitRefetch : x.sheet # q.sheet}
        /\ Settle(q)
        /\ UNCHANGED <<fileId, activeSheet, meta, sheet, loading, error, zoom,
                       metaReqs, nextId, userEvents, scrollVars, codecVars, previewVars,
                       overlayVars, awaitPreload>>

\* A faulty TileRejected: an empty page is cached under the key of the
\* failed request.
TileRejectedCachesFailure ==
    \E q \in inflight :
        /\ cache' = CacheSet(cache, TileKey(q.sheet, q.r0, q.c0),
                             [id |-> q.id, sheet |-> q.sheet,
                              r0 |-> q.r0, r1 |-> q.r0 - 1,
                              c0 |-> q.c0, c1 |-> q.c0 - 1, data |-> <<>>])
        /\ Settle(q)
        /\ UNCHANGED <<fileId, activeSheet, meta, sheet, loading, error, zoom,
                       metaReqs, nextId, lastStored, awaitRefetch,
                       userEvents, scrollVars, codecVars, previewVars,
                       overlayVars, awaitPreload>>

\* A faulty TileRejected: the rejection aborts the pass, which then never
\* sets tilesLoaded.
TileRejectedAborts ==
    \E q \in inflight :
        /\ inflight' = inflight \ {q}
        /\ passes' = {p \in passes : q.id \notin p}
        /\ lastCalls' = <<>>
        /\ UNCHANGED <<fileId, activeSheet, meta, sheet, loading, error, zoom,
                       tilesLoaded, timer, scrollTimers,
                       cache, metaReqs, nextId, lastStored, awaitRefetch,
                       userEvents, scrollVars, codecVars, previewVars,
                       overlayVars, awaitPreload>>

\* getExcelPage rejects: the catch of the pass turns it into null.
TileRejected ==
    \E q \in inflight :
        /\ Settle(q)
        /\ UNCHANGED <<fileId, activeSheet, meta, sheet, loading, error, zoom,
                       cache, metaReqs, nextId, lastStored, awaitRefetch,
                       userEvents, scrollVars, codecVars, previewVars,
                       overlayVars, awaitPreload>>

\* The highlightedCells prop takes a new array: the scroll effect runs.
HighlightProps ==
    {<<>>} \cup {<<[sheet |-> sh, cell |-> c]>> :
                    sh \in {S1, S2},
                    c \in {<<"b", "2">>, <<"a", "0", "1">>,
                           <<"A", "F", "1", "0", "2">>}}

HighlightChange ==
    \E h \in HighlightProps :
        /\ highlightedCells' = h
        /\ scrollTimers' = scrollTimers \o
              scrollEffect(h, sheet, zoom, tilesLoaded, meta, Rendered)
        /\ lastCalls' = <<>>
        /\ UNCHANGED <<fileId, activeSheet, meta, sheet, loading, error, zoom,
                       tilesLoaded, cache, metaReqs, timer, inflight, passes,
                       nextId, lastStored, awaitRefetch, scrollPos,
                       lastScrollTo, codecVars, previewVars,
                       overlayVars, awaitPreload>>

\* The user scrolls the grid: onScroll reports the new offsets.
ScrollPositions == {ZeroScroll, [scrollLeft |-> 40, scrollTop |-> 56]}

handleScroll ==
    \E pos \in ScrollPositions :
        /\ Rendered
        /\ scrollPos' = pos
        /\ lastCalls' = <<>>
        /\ UNCHANGED <<fileId, activeSheet, meta, sheet, loading, error, zoom,
                       tilesLoaded, cache, metaReqs, timer, inflight, passes,
                       nextId, lastStored, awaitRefetch, highlightedCells,
                       scrollTimers, lastScrollTo, codecVars, previewVars,
                       overlayVars, awaitPreload>>

\* The oldest scroll timer fires: with the grid mounted it calls scrollTo,
\* and the grid reports the new offsets through onScroll.
ScrollFire ==
    /\ scrollTimers # <<>>
    /\ scrollTimers' = Tail(scrollTimers)
    /\ LET t == Head(scrollTimers)
           to == scrollTarget(t)
       IN  IF Rendered
           THEN /\ scrollPos' = to
                /\ lastScrollTo' =
                      [rowIdx |-> t.rowIdx, colIdx |-> t.colIdx, zoom |-> t.zoom,
                       rows |-> t.rows, cols |-> t.cols,
                       scrollTop |-> to.scrollTop, scrollLeft |-> to.scrollLeft,
                       from |-> scrollPos,
                       again |-> /\ lastScrollTo # null
                                 /\ lastScrollTo.rowIdx = t.rowIdx
                                 /\ lastScrollTo.colIdx = t.colIdx
                                 /\ lastScrollTo.zoom = t.zoom]
           ELSE UNCHANGED <<scrollPos, lastScrollTo>>
    /\ lastCalls' = <<>>
    /\ UNCHANGED <<fileId, activeSheet, meta, sheet, loading, error, zoom,
                   tilesLoaded, cache, metaReqs, timer, inflight, passes,
                   nextId, lastStored, awaitRefetch, highlightedCells,
                   userEvents, codecVars, previewVars,
                       overlayVars, awaitPreload>>

\* One more of the prop changes and clicks a behaviour is allowed.
UserEvent ==
    /\ userEvents < MaxUserEvents
    /\ userEvents' = userEvents + 1

ViewerNext ==
    \/ UserEvent /\ FileChange
    \/ UserEvent /\ ActiveSheetChange
    \/ ViewerMetaResolved
    \/ ViewerMetaRejected
    \/ UserEvent /\ TabClick
    \/ UserEvent /\ handleZoomIn
    \/ UserEvent /\ handleZoomOut
    \/ UserEvent /\ handleZoomReset
    \/ PreloadFire
    \/ TileResolved
    \/ TileRejected

\* ------------------------------------------------------------------
\* Preview.jsx
\* ------------------------------------------------------------------

Matched == <<"m","a","t","c","h","e","d">>
MismatchedCaps == <<"M","i","s","m","a","t","c","h","e","d">>
Unverifiable == <<"u","n","v","e","r","i","f","i","a","b","l","e">>

\* A faulty isValidSheet: any named sheet passes once some sheet is known.
isValidSheetAnyKnown(sheetName, sheets) ==
    IF sheetName = <<>> THEN FALSE ELSE Len(sheets) > 0

\* isValidSheet, with the availableSheets of the render it closes over.
isValidSheet(sheetName, sheets) ==
    IF sheetName = <<>> THEN FALSE
    ELSE \E i \in 1..Len(sheets) :
             toLowerCase(sheets[i]) = toLowerCase(sheetName)

\* value.cells.every(cell => cellPattern.test(cell))
allCellsValid(cells) == \A i \in 1..Len(cells) : cellPatternTest(cells[i])

\* The .map callback of transformedValues for one result: the value shown in
\* the list, or null when the result has no usable Excel match.
transformResult(result, index) ==
    LET sheetName == result.excel_match.Source_Sheet
        rawCellRef == result.excel_match.Excel_Cell_used_for_match
        cellRefs == parseMultipleCells(JsString(rawCellRef))
    IN IF sheetName = <<>> /\ rawCellRef = <<>> THEN null
       ELSE IF sheetName = <<>> \/ Len(cellRefs) = 0 THEN null
       ELSE [id |-> result.pdf_value_id,
             status |-> result.validation_status,
             sheet |-> sheetName,
             cells |-> cellRefs,
             rawCellRef |-> rawCellRef]

\* transformedValues: the results with status matched or mismatched, mapped,
\* without the nulls, in order.
RECURSIVE transformFrom(_, _)
transformFrom(results, index) ==
    IF index > Len(results) THEN <<>>
    ELSE LET result == results[index]
             status == toLowerCase(result.validation_status)
             keep == status = Matched \/ status = toLowerCase(MismatchedCaps)
             value == IF keep THEN transformResult(result, index) ELSE null
         IN (IF value = null THEN <<>> ELSE <<value>>)
            \o transformFrom(results, index + 1)

transformedValues == transformFrom(preview, 1)

\* How many findings the preview prop holds, and how many runs of
\* loadExcelData a behaviour starts.
MaxFindings == 2
MaxLoads == 2

Sessions == {"a1", "a2"}

FindingSheets == {<<"s", "1">>, <<"X">>, <<>>}
FindingCells == {<<"a", "1", "!", "B", "2">>, <<"A", "1", "!", "x">>, <<"x">>}

Results(id) ==
    {[pdf_value_id |-> id, validation_status |-> st,
      excel_match |-> [Source_Sheet |-> sh, Excel_Cell_used_for_match |-> c]] :
        st \in {Matched, Unverifiable}, sh \in FindingSheets, c \in FindingCells}

\* The lists of n results with the ids 1..n.
RECURSIVE ResultLists(_)
ResultLists(n) ==
    IF n = 0 THEN {<<>>}
    ELSE {Append(p, r) : p \in ResultLists(n - 1), r \in Results(n)}

PreviewProps(most) == UNION {ResultLists(n) : n \in 1..most}

\* The part of loadExcelData up to its first await (lines 158-171).
StartLoad(sid) ==
    IF sid = ""
    THEN /\ pvError' = "No session ID provided"
         /\ pvLoading' = FALSE
         /\ UNCHANGED <<loaders, loadsStarted>>
    ELSE /\ pvLoading' = TRUE
         /\ pvError' = nullString
         /\ loaders' = Append(loaders, [session |-> sid, stage |-> "audit"])
         /\ loadsStarted' = loadsStarted + 1

\* The Preview state when the component is not under study.
PreviewIdle ==
    /\ preview = <<>>
    /\ sessionId = ""
    /\ active = null
    /\ availableSheets = <<>>
    /\ excelFileId = nullString
    /\ pvLoading = FALSE
    /\ pvError = nullString
    /\ loaders = <<>>
    /\ loadsStarted = 0
    /\ lastEvent = [kind |-> "mount"]

\* The state after the first render and its effect.
PreviewInit ==
    /\ preview \in PreviewProps(MaxFindings)
    /\ sessionId \in Sessions \cup {""}
    /\ active = null
    /\ availableSheets = <<>>
    /\ excelFileId = nullString
    /\ lastEvent = [kind |-> "mount"]
    /\ IF sessionId = ""
       THEN pvLoading = FALSE /\ pvError = "No session ID provided"
            /\ loaders = <<>> /\ loadsStarted = 0
       ELSE pvLoading = TRUE /\ pvError = nullString
            /\ loaders = <<[session |-> sessionId, stage |-> "audit"]>>
            /\ loadsStarted = 1

\* The sessionId prop changes: the effect of lines 157-216 runs again.
SessionChange ==
    \E sid \in Sessions \cup {""} :
        /\ sid # sessionId
        /\ loadsStarted < MaxLoads
        /\ sessionId' = sid
        /\ StartLoad(sid)
        /\ lastEvent' = [kind |-> "session"]
        /\ UNCHANGED <<preview, active, availableSheets, excelFileId, codecVars, viewerVars,
                       overlayVars>>

\* getAuditResults resolves with an upload session id: getValidationData is
\* awaited next.
AuditResolved ==
    \E i \in 1..Len(loaders) :
        /\ loaders[i].stage = "audit"
        /\ loaders' = [loaders EXCEPT ![i].stage = "validation"]
        /\ lastEvent' = [kind |-> "audit"]
        /\ UNCHANGED <<preview, sessionId, active, availableSheets, excelFileId,
                       pvLoading, pvError, loadsStarted, codecVars, viewerVars,
                       overlayVars>>

\* An awaited request of loadExcelData outside the inner try rejects, or the
\* audit results carry no upload session id: the catch of lines 208-212.
LoadFailed ==
    \E i \in 1..Len(loaders) :
        /\ loaders[i].stage \in {"audit", "validation"}
        /\ pvError' = "Failed to load Excel file"
        /\ pvLoading' = FALSE
        /\ loaders' = RemoveAt(loaders, i)
        /\ lastEvent' = [kind |-> "loadFailed"]
        /\ UNCHANGED <<preview, sessionId, active, availableSheets, excelFileId,
                       loadsStarted, codecVars, viewerVars,
                       overlayVars>>

\* getValidationData resolves with the file id: getExcelMeta is awaited next.
ValidationResolved ==
    \E i \in 1..Len(loaders) :
        /\ loaders[i].stage = "validation"
        /\ loaders' = [loaders EXCEPT ![i].stage = "meta"]
        /\ lastEvent' = [kind |-> "validation"]
        /\ UNCHANGED <<preview, sessionId, active, availableSheets, excelFileId,
                       pvLoading, pvError, loadsStarted, codecVars, viewerVars,
                       overlayVars>>

\* getValidationData resolves without any Excel file (lines 203-207).
ValidationWithoutFile ==
    \E i \in 1..Len(loaders) :
        /\ loaders[i].stage = "validation"
        /\ pvError' = "No Excel file found for this session"
        /\ pvLoading' = FALSE
        /\ loaders' = RemoveAt(loaders, i)
        /\ lastEvent' = [kind |-> "validationNoFile"]
        /\ UNCHANGED <<preview, sessionId, active, availableSheets, excelFileId,
                       loadsStarted, codecVars, viewerVars,
                       overlayVars>>

\* getExcelMeta resolves (lines 189-207): the sheet names and the file id are
\* stored and loading ends.
MetaResolved ==
    \E i \in 1..Len(loaders) :
        LET f == FileOfSession(loaders[i].session)
        IN /\ loaders[i].stage = "meta"
           /\ availableSheets' = SheetNames(FileSheets(f))
           /\ excelFileId' = f
           /\ pvLoading' = FALSE
           /\ loaders' = RemoveAt(loaders, i)
           /\ lastEvent' = [kind |-> "meta"]
           /\ UNCHANGED <<preview, sessionId, active, pvError, loadsStarted,
                          codecVars, viewerVars,
                       overlayVars>>

\* getExcelMeta rejects: the inner catch (lines 194-196) only warns.
MetaRejected ==
    \E i \in 1..Len(loaders) :
        /\ loaders[i].stage = "meta"
        /\ excelFileId' = FileOfSession(loaders[i].session)
        /\ pvLoading' = FALSE
        /\ loaders' = RemoveAt(loaders, i)
        /\ lastEvent' = [kind |-> "metaRejected"]
        /\ UNCHANGED <<preview, sessionId, active, availableSheets, pvError,
                       loadsStarted, codecVars, viewerVars,
                       overlayVars>>

\* The list of values is rendered (lines 261-297 return something else).
ListRendered ==
    /\ ~pvLoading
    /\ pvError = nullString
    /\ Len(transformedValues) > 0

\* One button of the list: disabled unless clickable, with the lines of the
\* "Cannot highlight" box it shows.
listItem(value, sheets) ==
    LET isSheetValid == isValidSheet(value.sheet, sheets)
        cellsValid == allCellsValid(value.cells)
        isClickable == isSheetValid /\ cellsValid
    IN  [id |-> value.id,
         disabled |-> ~isClickable,
         sheetNotFound |-> ~isClickable /\ ~isSheetValid,
         invalidCellFormat |-> ~isClickable /\ ~cellsValid]

\* The buttons of the list, in order.
listView ==
    [k \in 1..Len(transformedValues) |->
        listItem(transformedValues[k], availableSheets)]

\* handleValueClick(value) for a value of the list.
HandleValueClick ==
    \E i \in 1..Len(transformedValues) :
        LET value == transformedValues[i]
        IN /\ ListRendered
           /\ lastEvent' = [kind |-> "click", id |-> value.id]
           /\ IF ~isValidSheet(value.sheet, availableSheets) THEN UNCHANGED active
              ELSE IF ~allCellsValid(value.cells) THEN UNCHANGED active
              ELSE active' = value
           /\ UNCHANGED <<preview, sessionId, availableSheets, excelFileId,
                          pvLoading, pvError, loaders, loadsStarted, codecVars, viewerVars,
                       overlayVars>>

PreviewNext ==
    \/ SessionChange
    \/ AuditResolved
    \/ LoadFailed
    \/ ValidationResolved
    \/ ValidationWithoutFile
    \/ MetaResolved
    \/ MetaRejected
    \/ HandleValueClick

\* ------------------------------------------------------------------
\* InteractiveValidation.jsx: the page canvas and its overlay of boxes
\* ------------------------------------------------------------------

\* Confidences are in hundredths; a value may carry no confidence at all.
Confidence(c) == [defined |-> TRUE, c |-> c]
UndefinedConfidence == [defined |-> FALSE, c |-> 0]

\* value.confidence || 0
confidenceOrZero(conf) == IF conf.defined THEN conf.c ELSE 0

\* One extracted value. bounding_box is in tenths of the canvas; hasBox is
\* FALSE when coordinates.bounding_box is absent.
PdfValue(id, page, conf, hasBox, bbox, value) ==
    [id |-> id, page_number |-> page, confidence |-> conf, hasBox |-> hasBox,
     bounding_box |-> bbox, value |-> value]

ValueA == PdfValue("1", 1, Confidence(90), TRUE, <<1, 1, 3, 3>>, <<"A">>)
ValueB == PdfValue("2", 1, Confidence(0), TRUE, <<2, 2, 5, 5>>, <<"b">>)
ValueC == PdfValue("3", 1, Confidence(70), TRUE, <<6, 1, 8>>, <<"A">>)
ValueD == PdfValue("4", 2, UndefinedConfidence, TRUE, <<6, 6, 8, 8>>, <<"b">>)
ValueE == PdfValue("5", 1, Confidence(50), FALSE, <<>>, <<"A", "b">>)
ValueF == PdfValue("6", 1, Confidence(60), TRUE, <<6, 6, 8, 8>>, <<"b">>)

\* The responses of GET /validation/data/:sessionId: a document of two
\* pages and its values. No two values of one response have the same
\* confidence || 0, the key the list is sorted by.
ValidationResponses ==
    {[pages |-> 2, pdf_values |-> pv] :
        pv \in {<<ValueA, ValueB, ValueC>>, <<ValueC, ValueD, ValueA>>,
                <<ValueB, ValueE, ValueF>>, <<ValueF, ValueD, ValueE, ValueA>>}}

\* The size of a canvas element nothing has sized yet, and the natural size
\* of every page image.
DefaultCanvas == [width |-> 300, height |-> 150]
PageImage == [width |-> 200, height |-> 100]

InitialFilters == [confidence |-> 0, searchTerm |-> <<>>]
InitialSorting == [field |-> "confidence", direction |-> "desc"]

\* String.prototype.includes
includes(s, t) ==
    \E i \in 0..(Len(s) - Len(t)) : SubSeq(s, i + 1, i + Len(t)) = t

\* The callback of pdfValues.filter. Every value has business category and
\* value range left at 'all' and showModified left unchecked, so only the
\* confidence and the search term reject.
passesFilters(value, f) ==
    /\ ~(confidenceOrZero(value.confidence) < f.confidence)
    /\ \/ Len(f.searchTerm) = 0
       \/ includes(toLowerCase(value.value), toLowerCase(f.searchTerm))

RECURSIVE filterValues(_, _)
filterValues(seq, f) ==
    IF seq = <<>> THEN <<>>
    ELSE IF passesFilters(Head(seq), f)
         THEN <<Head(seq)>> \o filterValues(Tail(seq), f)
         ELSE filterValues(Tail(seq), f)

\* The comparator of filtered.sort for the field 'confidence': TRUE when a
\* is placed before b.
sortsBefore(a, b, srt) ==
    IF srt.direction = "asc"
    THEN confidenceOrZero(a.confidence) < confidenceOrZero(b.confidence)
    ELSE confidenceOrZero(a.confidence) > confidenceOrZero(b.confidence)

RECURSIVE insertSorted(_, _, _)
insertSorted(v, seq, srt) ==
    IF seq = <<>> THEN <<v>>
    ELSE IF sortsBefore(v, Head(seq), srt) THEN <<v>> \o seq
         ELSE <<Head(seq)>> \o insertSorted(v, Tail(seq), srt)

RECURSIVE sortValues(_, _)
sortValues(seq, srt) ==
    IF seq = <<>> THEN <<>>
    ELSE insertSorted(Head(seq), sortValues(Tail(seq), srt), srt)

filteredPdfValues(pv, f, srt) == sortValues(filterValues(pv, f), srt)

\* filteredPdfValues.filter(value => value.page_number === currentPage + 1
\*                                   && value.coordinates?.bounding_box)
RECURSIVE pageValues(_, _)
pageValues(fpv, cp) ==
    IF fpv = <<>> THEN <<>>
    ELSE IF Head(fpv).page_number = cp + 1 /\ Head(fpv).hasBox
         THEN <<Head(fpv)>> \o pageValues(Tail(fpv), cp)
         ELSE pageValues(Tail(fpv), cp)

Gray == "#9CA3AF"
Green == "#10B981"
Amber == "#F59E0B"
Red == "#EF4444"
SelectedBlue == "#3B82F6"
HoveredViolet == "#8B5CF6"

\* !confidence is true of undefined and of 0.
getConfidenceColor(conf) ==
    IF ~conf.defined \/ conf.c = 0 THEN Gray
    ELSE IF conf.c >= 80 THEN Green
    ELSE IF conf.c >= 60 THEN Amber
    ELSE Red

\* A faulty boxStyle: the hovered id is looked at before the selected id.
boxStyleHoverFirst(value, sel, hov) ==
    IF hov = value.id
    THEN [strokeColor |-> HoveredViolet, fillColor |-> <<HoveredViolet, "20">>,
          lineWidth |-> 3, lineDash |-> <<5, 5>>]
    ELSE IF sel = value.id
    THEN [strokeColor |-> SelectedBlue, fillColor |-> <<SelectedBlue, "20">>,
          lineWidth |-> 3, lineDash |-> <<>>]
    ELSE [strokeColor |-> getConfidenceColor(value.confidence),
          fillColor |-> <<getConfidenceColor(value.confidence), "20">>,
          lineWidth |-> 2, lineDash |-> <<>>]

\* strokeColor, fillColor, lineWidth and lineDash of drawValueBoundingBox.
boxStyle(value, sel, hov) ==
    IF sel = value.id
    THEN [strokeColor |-> SelectedBlue, fillColor |-> <<SelectedBlue, "20">>,
          lineWidth |-> 3, lineDash |-> <<>>]
    ELSE IF hov = value.id
    THEN [strokeColor |-> HoveredViolet, fillColor |-> <<HoveredViolet, "20">>,
          lineWidth |-> 3, lineDash |-> <<5, 5>>]
    ELSE [strokeColor |-> getConfidenceColor(value.confidence),
          fillColor |-> <<getConfidenceColor(value.confidence), "20">>,
          lineWidth |-> 2, lineDash |-> <<>>]

\* A faulty drawValueBoundingBox: the far corner is handed to fillRect as
\* the rectangle's width and height.
drawValueBoundingBoxFarCorner(value, canvasWidth, canvasHeight, sel, hov) ==
    LET bbox == value.bounding_box IN
    IF Len(bbox) # 4 THEN <<>>
    ELSE <<[id |-> value.id,
            x |-> bbox[1] * canvasWidth, y |-> bbox[2] * canvasHeight,
            w |-> bbox[3] * canvasWidth, h |-> bbox[4] * canvasHeight,
            style |-> boxStyle(value, sel, hov),
            label |-> (sel = value.id \/ hov = value.id)]>>

\* What drawValueBoundingBox paints for one value: nothing, or the
\* rectangle of fillRect/strokeRect(x, y, w, h), in tenths of a pixel.
drawValueBoundingBox(value, canvasWidth, canvasHeight, sel, hov) ==
    LET bbox == value.bounding_box IN
    IF Len(bbox) # 4 THEN <<>>
    ELSE LET canvasX1 == bbox[1] * canvasWidth
             canvasY1 == bbox[2] * canvasHeight
             canvasX2 == bbox[3] * canvasWidth
             canvasY2 == bbox[4] * canvasHeight
         IN  <<[id |-> value.id,
                x |-> canvasX1, y |-> canvasY1,
                w |-> canvasX2 - canvasX1, h |-> canvasY2 - canvasY1,
                style |-> boxStyle(value, sel, hov),
                label |-> (sel = value.id \/ hov = value.id)]>>

RECURSIVE drawEach(_, _, _, _, _)
drawEach(pvs, canvasWidth, canvasHeight, sel, hov) ==
    IF pvs = <<>> THEN <<>>
    ELSE drawValueBoundingBox(Head(pvs), canvasWidth, canvasHeight, sel, hov)
         \o drawEach(Tail(pvs), canvasWidth, canvasHeight, sel, hov)

\* drawValueOverlays: the overlay canvas takes the size the page canvas
\* has now, is cleared, and gets the boxes of the current page.
drawValueOverlays(fpv, cp, show, mode, sel, hov, main) ==
    [canvas |-> main,
     boxes |-> IF ~show \/ mode # "pdf" THEN <<>>
               ELSE drawEach(pageValues(fpv, cp), main.width, main.height,
                             sel, hov)]

\* drawDocumentPage: an image is created for the current page if the
\* document has it; the page canvas changes when the image has loaded.
drawDocumentPage(vd, cp, z, loads) ==
    IF cp < vd.pages THEN Append(loads, [page |-> cp, zoom |-> z]) ELSE loads

\* The callback of pageValues.find in the two pointer handlers: the point
\* (px, py) of the overlay, in pixels, is divided by the canvas size and
\* compared with the fractions of the box, bounds included.
containsPoint(value, px, py, canvas) ==
    LET bbox == value.bounding_box IN
    /\ Len(bbox) = 4
    /\ 10 * px >= bbox[1] * canvas.width
    /\ 10 * px <= bbox[3] * canvas.width
    /\ 10 * py >= bbox[2] * canvas.height
    /\ 10 * py <= bbox[4] * canvas.height

RECURSIVE findValue(_, _, _, _)
findValue(pvs, px, py, canvas) ==
    IF pvs = <<>> THEN nullString
    ELSE IF containsPoint(Head(pvs), px, py, canvas) THEN Head(pvs).id
         ELSE findValue(Tail(pvs), px, py, canvas)

\* The two canvases exist while the document viewer is rendered.
CanvasMounted == ~ovLoading /\ validationData # null /\ validationMode = "pdf"

OverlayIdle ==
    /\ validationData = null
    /\ pdfValues = <<>>
    /\ ovLoading = TRUE
    /\ currentPage = 0
    /\ ovZoom = 100
    /\ selectedValueId = nullString
    /\ hoveredValueId = nullString
    /\ showBoundingBoxes = TRUE
    /\ validationMode = "pdf"
    /\ filters = InitialFilters
    /\ sorting = InitialSorting
    /\ mainCanvas = DefaultCanvas
    /\ overlayCanvas = DefaultCanvas
    /\ drawn = <<>>
    /\ imgLoads = <<>>
    /\ lastClick = null
    /\ ovEvents = 0

\* The user's actions on the validation page are counted up to a bound.
MaxOverlayEvents == 3

OverlayEvent == ovEvents < MaxOverlayEvents /\ ovEvents' = ovEvents + 1

\* The page is past its loading and no-data returns.
PageShown == ~ovLoading /\ validationData # null

\* The body of the redraw effect, on the state the handler leaves.
Redraw ==
    /\ imgLoads' = drawDocumentPage(validationData', currentPage', ovZoom',
                                    imgLoads)
    /\ LET o == drawValueOverlays(
                    filteredPdfValues(pdfValues', filters', sorting'),
                    currentPage', showBoundingBoxes', validationMode',
                    selectedValueId', hoveredValueId', mainCanvas)
       IN  /\ overlayCanvas' = o.canvas
           /\ drawn' = o.boxes

\* The redraw effect after a render: it runs when one of validationData,
\* currentPage, zoom, selectedValueId, hoveredValueId, showBoundingBoxes
\* and filters.confidence has changed, and draws when the data and both
\* canvases are there.
RedrawEffect ==
    IF /\ <<validationData', currentPage', ovZoom', selectedValueId',
            hoveredValueId', showBoundingBoxes', filters'.confidence>>
          # <<validationData, currentPage, ovZoom, selectedValueId,
              hoveredValueId, showBoundingBoxes, filters.confidence>>
       /\ CanvasMounted'
    THEN Redraw
    ELSE UNCHANGED <<imgLoads, overlayCanvas, drawn>>

\* loadValidationData, the request answered.
LoadResolved ==
    /\ ovLoading
    /\ \E data \in ValidationResponses :
        /\ validationData' = data
        /\ pdfValues' = data.pdf_values
    /\ ovLoading' = FALSE
    /\ UNCHANGED <<currentPage, ovZoom, selectedValueId, hoveredValueId,
                   showBoundingBoxes, validationMode, filters, sorting,
                   mainCanvas, lastClick, ovEvents>>
    /\ RedrawEffect
    /\ UNCHANGED <<codecVars, previewVars, viewerVars>>

\* loadValidationData, the request failed.
LoadRejected ==
    /\ ovLoading
    /\ ovLoading' = FALSE
    /\ UNCHANGED <<validationData, pdfValues, currentPage, ovZoom,
                   selectedValueId, hoveredValueId, showBoundingBoxes,
                   validationMode, filters, sorting, mainCanvas, overlayCanvas,
                   drawn, imgLoads, lastClick, ovEvents>>
    /\ UNCHANGED <<codecVars, previewVars, viewerVars>>

\* img.onload of one of the images drawDocumentPage created.
ImgLoaded ==
    /\ CanvasMounted
    /\ \E i \in 1..Len(imgLoads) :
        /\ mainCanvas' = [width |-> (PageImage.width * imgLoads[i].zoom) \div 100,
                          height |-> (PageImage.height * imgLoads[i].zoom) \div 100]
        /\ imgLoads' = RemoveAt(imgLoads, i)
    /\ UNCHANGED <<validationData, pdfValues, ovLoading, currentPage, ovZoom,
                   selectedValueId, hoveredValueId, showBoundingBoxes,
                   validationMode, filters, sorting, overlayCanvas, drawn,
                   lastClick, ovEvents>>
    /\ UNCHANGED <<codecVars, previewVars, viewerVars>>

\* Where the pointer is put on the overlay, in pixels from its corner.
PointerPoints == {<<60, 30>>, <<140, 70>>, <<10, 90>>}

\* The overlay takes pointer events while showBoundingBoxes is set.
PointerOn(p) ==
    /\ CanvasMounted
    /\ showBoundingBoxes
    /\ p[1] <= overlayCanvas.width
    /\ p[2] <= overlayCanvas.height

handleCanvasClick ==
    \E p \in PointerPoints :
        /\ PointerOn(p)
        /\ LET clicked == findValue(
                   pageValues(filteredPdfValues(pdfValues, filters, sorting),
                              currentPage),
                   p[1], p[2], overlayCanvas)
           IN  /\ selectedValueId' = clicked
               /\ lastClick' = [px |-> p[1], py |-> p[2], clicked |-> clicked,
                                canvas |-> overlayCanvas, shown |-> drawn]
        /\ UNCHANGED <<validationData, pdfValues, ovLoading, currentPage,
                       ovZoom, hoveredValueId, showBoundingBoxes,
                       validationMode, filters, sorting, mainCanvas>>
        /\ RedrawEffect
        /\ UNCHANGED <<codecVars, previewVars, viewerVars>>

handleCanvasMouseMove ==
    \E p \in PointerPoints :
        /\ PointerOn(p)
        /\ hoveredValueId' = findValue(
               pageValues(filteredPdfValues(pdfValues, filters, sorting),
                          currentPage),
               p[1], p[2], overlayCanvas)
        /\ UNCHANGED <<validationData, pdfValues, ovLoading, currentPage,
                       ovZoom, selectedValueId, showBoundingBoxes,
                       validationMode, filters, sorting, mainCanvas, lastClick>>
        /\ RedrawEffect
        /\ UNCHANGED <<codecVars, previewVars, viewerVars>>

\* setFilters / setSorting with the state the control asks for.
SetFilters(f, srt) ==
    /\ PageShown
    /\ filters' = f
    /\ sorting' = srt
    /\ UNCHANGED <<validationData, pdfValues, ovLoading, currentPage, ovZoom,
                   selectedValueId, hoveredValueId, showBoundingBoxes,
                   validationMode, mainCanvas, lastClick>>
    /\ RedrawEffect
    /\ UNCHANGED <<codecVars, previewVars, viewerVars>>

SearchTerms == {<<>>, <<"a">>}
MinConfidences == {0, 60}

\* onChange of the search box.
SearchChange ==
    \E t \in SearchTerms :
        SetFilters([filters EXCEPT !.searchTerm = t], sorting)

\* onChange of the minimum-confidence slider.
ConfidenceChange ==
    \E c \in MinConfidences :
        SetFilters([filters EXCEPT !.confidence = c], sorting)

\* onClick of Clear Filters.
ClearFilters == SetFilters(InitialFilters, sorting)

\* onClick of the sort direction button.
SortDirectionToggle ==
    SetFilters(filters,
               [sorting EXCEPT !.direction =
                    IF sorting.direction = "asc" THEN "desc" ELSE "asc"])

\* setZoom / setCurrentPage / setShowBoundingBoxes of the document viewer.
SetView(z, cp, show) ==
    /\ CanvasMounted
    /\ ovZoom' = z
    /\ currentPage' = cp
    /\ showBoundingBoxes' = show
    /\ UNCHANGED <<validationData, pdfValues, ovLoading, selectedValueId,
                   hoveredValueId, validationMode, filters, sorting,
                   mainCanvas, lastClick>>
    /\ RedrawEffect
    /\ UNCHANGED <<codecVars, previewVars, viewerVars>>

\* setZoom(Math.min(3.0, zoom + 0.25)) and setZoom(Math.max(0.5, zoom - 0.25))
OverlayZoomIn == SetView(Min(300, ovZoom + 25), currentPage, showBoundingBoxes)
OverlayZoomOut == SetView(Max(50, ovZoom - 25), currentPage, showBoundingBoxes)

\* Previous is disabled on the first page, Next on the last.
PagePrevious ==
    /\ currentPage # 0
    /\ SetView(ovZoom, Max(0, currentPage - 1), showBoundingBoxes)

PageNext ==
    /\ validationData # null
    /\ ~(currentPage >= validationData.pages - 1)
    /\ SetView(ovZoom, Min(validationData.pages - 1, currentPage + 1),
               showBoundingBoxes)

\* onClick of the Overlays button.
OverlaysToggle == SetView(ovZoom, currentPage, ~showBoundingBoxes)

\* onClick of a mode button. In audit mode the document viewer is not
\* rendered; back in pdf mode it is rendered with two new canvas elements,
\* and the images created for the old page canvas no longer matter.
SetValidationMode ==
    \E mode \in {"pdf", "audit"} :
        /\ PageShown
        /\ validationMode' = mode
        /\ IF mode # validationMode
           THEN /\ mainCanvas' = DefaultCanvas
                /\ overlayCanvas' = DefaultCanvas
                /\ drawn' = <<>>
                /\ imgLoads' = <<>>
           ELSE UNCHANGED <<mainCanvas, overlayCanvas, drawn, imgLoads>>
        /\ UNCHANGED <<validationData, pdfValues, ovLoading, currentPage,
                       ovZoom, selectedValueId, hoveredValueId,
                       showBoundingBoxes, filters, sorting, lastClick>>
        /\ UNCHANGED <<codecVars, previewVars, viewerVars>>

\* onValueSelect of the values panel: a card of the filtered list.
ValueSelect ==
    /\ CanvasMounted
    /\ \E k \in 1..Len(filteredPdfValues(pdfValues, filters, sorting)) :
        selectedValueId' = filteredPdfValues(pdfValues, filters, sorting)[k].id
    /\ UNCHANGED <<validationData, pdfValues, ovLoading, currentPage, ovZoom,
                   hoveredValueId, showBoundingBoxes, validationMode, filters,
                   sorting, mainCanvas, lastClick>>
    /\ RedrawEffect
    /\ UNCHANGED <<codecVars, previewVars, viewerVars>>

OverlayNext ==
    \/ LoadResolved
    \/ LoadRejected
    \/ ImgLoaded
    \/ OverlayEvent /\ handleCanvasClick
    \/ OverlayEvent /\ handleCanvasMouseMove
    \/ OverlayEvent /\ SearchChange
    \/ OverlayEvent /\ ConfidenceChange
    \/ OverlayEvent /\ ClearFilters
    \/ OverlayEvent /\ SortDirectionToggle
    \/ OverlayEvent /\ OverlayZoomIn
    \/ OverlayEvent /\ OverlayZoomOut
    \/ OverlayEvent /\ PagePrevious
    \/ OverlayEvent /\ PageNext
    \/ OverlayEvent /\ OverlaysToggle
    \/ OverlayEvent /\ SetValidationMode
    \/ OverlayEvent /\ ValueSelect

\* ------------------------------------------------------------------
\* Specifications
\* ------------------------------------------------------------------

InitPreview == PreviewInit /\ CodecIdle /\ ViewerIdle /\ OverlayIdle

SpecPreview == InitPreview /\ [][PreviewNext]_vars

\* The grid viewer on its own, the other components idle.
Init ==
    /\ ViewerInit
    /\ highlightedCells = <<>>
    /\ CodecIdle
    /\ PreviewIdle
    /\ OverlayIdle

Next == ViewerNext

Spec == Init /\ [][Next]_vars

\* The grid viewer under zoom clicks without number, no other prop change
\* or click.
NextZoom ==
    \/ handleZoomIn /\ UNCHANGED userEvents
    \/ handleZoomOut /\ UNCHANGED userEvents
    \/ handleZoomReset /\ UNCHANGED userEvents
    \/ ViewerMetaResolved
    \/ ViewerMetaRejected
    \/ PreloadFire
    \/ TileResolved
    \/ TileRejected

SpecZoom == Init /\ [][NextZoom]_vars

\* The grid viewer with cells to highlight: the highlight changes, the user
\* scrolls, zooms and clicks tabs, the scroll timers fire.
InitScroll ==
    /\ ViewerInit
    /\ fileId = "F1"
    /\ highlightedCells \in HighlightProps
    /\ CodecIdle
    /\ PreviewIdle
    /\ OverlayIdle

NextScroll ==
    \/ UserEvent /\ HighlightChange
    \/ UserEvent /\ handleScroll
    \/ UserEvent /\ TabClick
    \/ UserEvent /\ handleZoomIn
    \/ UserEvent /\ handleZoomOut
    \/ ScrollFire
    \/ ViewerMetaResolved
    \/ PreloadFire
    \/ TileResolved
    \/ TileRejected

SpecScroll == InitScroll /\ [][NextScroll]_vars

\* The grid viewer through one sheet switch, with what the browser and the
\* network guarantee: a timer that stays set fires, a request in flight
\* is answered or fails.
FirstUserEvent == userEvents = 0 /\ userEvents' = 1

NextLive ==
    \/ FirstUserEvent /\ TabClick
    \/ FirstUserEvent /\ ActiveSheetChange
    \/ ViewerMetaResolved
    \/ ViewerMetaRejected
    \/ PreloadFire
    \/ TileResolved
    \/ TileRejected

SpecLive ==
    /\ Init
    /\ [][NextLive]_vars
    /\ WF_vars(ViewerMetaResolved \/ ViewerMetaRejected)
    /\ WF_vars(PreloadFire)
    /\ WF_vars(TileResolved \/ TileRejected)

\* ------------------------------------------------------------------
\* Preview.jsx with the ExcelViewer it renders: the active finding gives
\* the viewer its activeSheet and highlightedCells props
\* ------------------------------------------------------------------

\* highlightedCells as Preview builds it (lines 448-451).
cellsProp(value) ==
    [i \in 1..Len(value.cells) |-> [sheet |-> value.sheet, cell |-> value.cells[i]]]

\* The first finding becomes active: ExcelViewer mounts with its props,
\* and the metadata effect sends its request.
mountViewer(value) ==
    /\ fileId' = excelFileId
    /\ activeSheet' = value.sheet
    /\ highlightedCells' = cellsProp(value)
    /\ meta' = <<>>
    /\ sheet' = value.sheet
    /\ loading' = TRUE
    /\ error' = nullString
    /\ zoom' = 100
    /\ tilesLoaded' = FALSE
    /\ cache' = <<>>
    /\ metaReqs' = <<[file |-> excelFileId, sheet |-> value.sheet,
                      activeSheet |-> value.sheet]>>
    /\ timer' = NoTimer
    /\ inflight' = {}
    /\ passes' = {}
    /\ lastStored' = NoneStored
    /\ awaitRefetch' = {}
    /\ scrollPos' = ZeroScroll
    /\ scrollTimers' = <<>>
    /\ lastScrollTo' = null
    /\ awaitPreload' = <<>>
    /\ UNCHANGED nextId

\* Another finding becomes active: the mounted viewer gets new props.  The
\* scroll effect runs (the array is a new one), the activeSheet effect
\* only when the activeSheet prop differs from the one before.
viewerProps(value) ==
    LET a == value.sheet
        h == cellsProp(value)
        switch == a # activeSheet /\ activeSheetSwitches(a, meta, sheet)
    IN  /\ activeSheet' = a
        /\ highlightedCells' = h
        /\ scrollTimers' = scrollTimers \o
              scrollEffect(h, sheet, zoom, tilesLoaded, meta, Rendered)
        /\ IF switch
           THEN /\ sheet' = a
                /\ tilesLoaded' = FALSE
                /\ cache' = clearCache(cache)
                /\ lastStored' = NoneStored
                /\ timer' = preloadEffect(a, FALSE, meta, fileId)
                /\ awaitRefetch' = AwaitAfterSwitch(awaitRefetch, cache, sheet)
                /\ inflight' = MarkOld(inflight, sheet)
                /\ awaitPreload' = a
           ELSE UNCHANGED <<sheet, tilesLoaded, cache, lastStored, timer,
                            awaitRefetch, inflight, awaitPreload>>
        /\ UNCHANGED <<fileId, meta, loading, error, zoom, metaReqs, passes,
                       nextId, scrollPos, lastScrollTo>>

\* handleValueClick(value) with the render that follows it.
handleValueClickShown ==
    \E i \in 1..Len(transformedValues) :
        LET value == transformedValues[i]
        IN /\ ListRendered
           /\ excelFileId # nullString
           /\ lastEvent' = [kind |-> "click", id |-> value.id]
           /\ lastCalls' = <<>>
           /\ IF \/ ~isValidSheet(value.sheet, availableSheets)
                 \/ ~allCellsValid(value.cells)
              THEN UNCHANGED <<active, fileId, activeSheet, meta, sheet, loading,
                               error, zoom, tilesLoaded, cache, metaReqs, timer,
                               inflight, passes, nextId, lastStored,
                               awaitRefetch, highlightedCells, scrollPos,
                               scrollTimers, lastScrollTo, awaitPreload>>
              ELSE /\ active' = value
                   /\ IF active = null THEN mountViewer(value)
                                        ELSE viewerProps(value)
           /\ UNCHANGED <<preview, sessionId, availableSheets, excelFileId,
                          pvLoading, pvError, loaders, loadsStarted, codecVars,
                          overlayVars>>

\* The findings of a session on file F1: sheet names as the metadata has
\* them, and one in lower case.
FollowResult(id, sh, c) ==
    [pdf_value_id |-> id, validation_status |-> Matched,
     excel_match |-> [Source_Sheet |-> sh, Excel_Cell_used_for_match |-> c]]

FollowPreviews ==
    {<<FollowResult(1, S1, <<"B", "2">>), FollowResult(2, S2, <<"A", "1">>)>>,
     <<FollowResult(1, S1, <<"a", "1">>), FollowResult(2, <<"s", "1">>, <<"B", "1">>)>>}

\* Preview after loadExcelData has finished for session a1, no finding
\* active yet, so no viewer mounted.
InitFollow ==
    /\ preview \in FollowPreviews
    /\ sessionId = "a1"
    /\ active = null
    /\ availableSheets = SheetNames(FileSheets(FileOfSession("a1")))
    /\ excelFileId = FileOfSession("a1")
    /\ pvLoading = FALSE
    /\ pvError = nullString
    /\ loaders = <<>>
    /\ loadsStarted = 1
    /\ lastEvent = [kind |-> "meta"]
    /\ ViewerIdle
    /\ CodecIdle
    /\ OverlayIdle

\* Clicks on findings and on sheet tabs a behaviour is allowed.
MaxFollowEvents == 3

FollowEvent ==
    /\ userEvents < MaxFollowEvents
    /\ userEvents' = userEvents + 1

NextFollow ==
    \/ FollowEvent /\ handleValueClickShown
    \/ FollowEvent /\ TabClick
    \/ ViewerMetaResolved
    \/ ViewerMetaRejected
    \/ PreloadFire
    \/ TileResolved
    \/ TileRejected
    \/ ScrollFire

\* Responses arrive and timers fire; nobody has to click.
SpecFollow ==
    /\ InitFollow
    /\ [][NextFollow]_vars
    /\ WF_vars(ViewerMetaResolved \/ ViewerMetaRejected)
    /\ WF_vars(PreloadFire)
    /\ WF_vars(TileResolved \/ TileRejected)
    /\ WF_vars(ScrollFire)

\* The validation page on its own, the other components idle.
InitOverlay == OverlayIdle /\ CodecIdle /\ PreviewIdle /\ ViewerIdle

SpecOverlay == InitOverlay /\ [][OverlayNext]_vars

\* ------------------------------------------------------------------
\* Codec harness: each function applied once to an input from a bounded set
\* ------------------------------------------------------------------

\* Longest text over the full alphabet, longest reference string over the
\* reference alphabet, largest column index (18278 is "ZZZ").
MaxLen == 4
MaxRefLen == 7
MaxCol == 18278

Alphabet == {"A", "b", "Z", "0", "1", "2", "!", " ", SharpS}
RefAlphabet == {"A", "1", "!", " "}

TextsUpTo(S, n) == UNION {[1..k -> S] : k \in 0..n}

StringInputs(S, n) == {JsString(t) : t \in TextsUpTo(S, n)}
NumberInputs(n) == {JsNumber(k) : k \in 0..n}

CodecInit ==
    /\ input \in StringInputs(Alphabet, MaxLen)
                \cup StringInputs(RefAlphabet, MaxRefLen)
                \cup NumberInputs(MaxCol)
                \cup {JsNull, JsUndefined}
    /\ called = "none"
    /\ output = null

InitCodec == CodecInit /\ PreviewIdle /\ ViewerIdle /\ OverlayIdle

\* colToLetter(col) for a column index, then the label converted back.
CallColToLetter ==
    /\ called = "none"
    /\ input.type = "number" /\ input.num >= 1
    /\ called' = "colToLetter"
    /\ output' = [label |-> colToLetter(input.num),
                  back |-> lettersToCol(colToLetter(input.num), 0)]
    /\ UNCHANGED <<input, previewVars, viewerVars,
                       overlayVars>>

CallA1ToRC ==
    /\ called = "none"
    /\ called' = "a1ToRC"
    /\ output' = a1ToRC(input)
    /\ UNCHANGED <<input, previewVars, viewerVars,
                       overlayVars>>

CallParseMultipleCells ==
    /\ called = "none"
    /\ called' = "parseMultipleCells"
    /\ output' = parseMultipleCells(input)
    /\ UNCHANGED <<input, previewVars, viewerVars,
                       overlayVars>>

CodecNext ==
    \/ CallColToLetter
    \/ CallA1ToRC
    \/ CallParseMultipleCells

SpecCodec == InitCodec /\ [][CodecNext]_vars

\* ------------------------------------------------------------------
\* The address grammar and its values, as the specification states them
\* ------------------------------------------------------------------

AsciiLetters == Range(UpperAZ) \cup Range(LowerAZ)

\* The number of leading ASCII letters of t.
LeadingLetters(t) ==
    Cardinality({i \in 1..Len(t) : \A j \in 1..i : t[j] \in AsciiLetters})

\* "One or more letters followed by one or more digits", /^[A-Z]+\d+$/i.
InGrammar(t) ==
    /\ LeadingLetters(t) >= 1
    /\ LeadingLetters(t) < Len(t)
    /\ \A i \in (LeadingLetters(t) + 1)..Len(t) : IsDigit(t[i])

RECURSIVE Pow(_, _)
Pow(b, e) == IF e = 0 THEN 1 ELSE b * Pow(b, e - 1)

\* A = a = 1 ... Z = z = 26.
LetterValue(ch) ==
    IF ch \in Range(UpperAZ) THEN IndexIn(UpperAZ, ch) ELSE IndexIn(LowerAZ, ch)

\* Bijective base 26: the letter at distance d from the end weighs 26^d.
Base26Value(ls) ==
    LET sum[n \in 0..Len(ls)] ==
            IF n = 0 THEN 0
            ELSE sum[n - 1] + LetterValue(ls[n]) * Pow(26, Len(ls) - n)
    IN sum[Len(ls)]

DecimalValue(ds) ==
    LET sum[n \in 0..Len(ds)] ==
            IF n = 0 THEN 0
            ELSE sum[n - 1] + (IndexIn(Digits09, ds[n]) - 1) * Pow(10, Len(ds) - n)
    IN sum[Len(ds)]

\* The Address the grammar assigns to a text of the grammar.
AddressOf(t) ==
    [row |-> DecimalValue(SubSeq(t, LeadingLetters(t) + 1, Len(t))),
     col |-> Base26Value(SubSeq(t, 1, LeadingLetters(t)))]

\* The pieces of raw between its '!' characters, by position.
Cuts(raw) == {0} \cup {i \in 1..Len(raw) : raw[i] = "!"} \cup {Len(raw) + 1}
NthOf(S, n) == CHOOSE c \in S : Cardinality({d \in S : d < c}) = n - 1
PieceOf(raw, n) ==
    SubSeq(raw, NthOf(Cuts(raw), n) + 1, NthOf(Cuts(raw), n + 1) - 1)

\* p without its leading and trailing white space.
Trimmed(p) ==
    LET ink == {i \in 1..Len(p) : p[i] \notin WhiteSpace}
    IN IF ink = {} THEN <<>>
       ELSE SubSeq(p, CHOOSE i \in ink : \A j \in ink : i <= j,
                      CHOOSE i \in ink : \A j \in ink : i >= j)

\* The trimmed, non-empty, well-formed tokens of raw in their original order.
ValidTokens(raw) ==
    LET kept == {n \in 1..(Cardinality(Cuts(raw)) - 1) :
                   /\ Trimmed(PieceOf(raw, n)) # <<>>
                   /\ InGrammar(Trimmed(PieceOf(raw, n)))}
    IN [j \in 1..Cardinality(kept) |-> Trimmed(PieceOf(raw, NthOf(kept, j)))]

\* ------------------------------------------------------------------
\* Claims about the codec and the parser (under SpecCodec)
\* ------------------------------------------------------------------

\* C6: for every column index col in [1, MaxCol], colToLetter(col) converted
\* back by the letter-to-column loop of a1ToRC is col again, and the label
\* consists of the letters A-Z only.
Thm_C6_ColumnRoundTrip ==
    called = "colToLetter" =>
        /\ output.back = input.num
        /\ output.label # <<>>
        /\ \A i \in 1..Len(output.label) : IsUpperLetter(output.label[i])

\* C6 witness: column 18278 was converted to "ZZZ" and back.
Wit_C6_ZZZ ==
    /\ called = "colToLetter"
    /\ input.num = 18278
    /\ output.label = <<"Z", "Z", "Z">>
    /\ output.back = 18278

\* C7: a1ToRC returns null for every text outside the grammar and, for a
\* text of the grammar, the row and column the grammar assigns to it.
Claim_C7_ParseAddress ==
    (called = "a1ToRC" /\ input.type = "string") =>
        IF InGrammar(input.chars)
        THEN output = AddressOf(input.chars)
        ELSE output = null

\* C8: every non-null result of a1ToRC has row >= 1 and col >= 1.
Claim_C8_OneBased ==
    (called = "a1ToRC" /\ output # null) =>
        (output.row >= 1 /\ output.col >= 1)

\* C9: parseMultipleCells returns exactly the trimmed, non-empty tokens of
\* raw between '!' that match the grammar, in order; the empty list for an
\* empty or non-string input.
Thm_C9_ParseMultipleCells ==
    called = "parseMultipleCells" =>
        output = (IF input.type = "string" THEN ValidTokens(input.chars)
                  ELSE <<>>)

\* C9 witness: "A1!A!A1" minus its malformed middle token.
Wit_C9_DropsMalformed ==
    /\ called = "parseMultipleCells"
    /\ input = JsString(<<"A", "1", "!", "A", "!", "A", "1">>)
    /\ output = << <<"A", "1">>, <<"A", "1">> >>

\* ------------------------------------------------------------------
\* Claims about the Preview (under SpecPreview)
\* ------------------------------------------------------------------

\* A sheet name is known when it equals a known name up to letter case.
KnownSheet(name, sheets) ==
    \E i \in 1..Len(sheets) : toLowerCase(sheets[i]) = toLowerCase(name)

\* A value of the list is eligible for highlighting.
Eligible(v, sheets) ==
    /\ KnownSheet(v.sheet, sheets)
    /\ \A i \in 1..Len(v.cells) : InGrammar(v.cells[i])

\* The value of the list a click was made on.
ClickedValue(ev) ==
    CHOOSE v \in Range(transformedValues) : v.id = ev.id

\* C10: the active finding changes only in a click on a value that is
\* eligible under the sheet names known at the click, and it changes to that
\* value; a click on an ineligible value leaves the active finding unchanged.
Thm_C10_ActiveOnlyByEligibleClick ==
    [][ /\ (active' # active) =>
             /\ lastEvent'.kind = "click"
             /\ active' = ClickedValue(lastEvent')
             /\ Eligible(active', availableSheets)
        /\ (lastEvent'.kind = "click"
              /\ ~Eligible(ClickedValue(lastEvent'), availableSheets)) =>
             active' = active ]_vars

\* C10 witness: the finding of sheet "s1" became active while the known
\* sheet is "S1", and a later click on a finding of the unknown sheet "X"
\* left it active.
Wit_C10_EligibleThenIneligibleClick ==
    /\ active # null
    /\ active.sheet = <<"s", "1">>
    /\ S1 \in Range(availableSheets)
    /\ lastEvent.kind = "click"
    /\ lastEvent.id # active.id
    /\ ClickedValue(lastEvent).sheet = <<"X">>

\* ------------------------------------------------------------------
\* Claims about the tile cache and the grid viewer (specification Spec)
\* ------------------------------------------------------------------

ProbeSheets == {S1, S2}
ProbeRows == 1..3
ProbeCols == 1..8

\* C1: a fetchTile call for a key under which a fetchTile has completed
\* since the last clearCache returns the very object that completion stored
\* and sends no getExcelPage request.
Thm_C1_CacheHitNoRequest ==
    [][ \A k \in 1..Len(lastCalls') :
          LET call == lastCalls'[k]
              stored == StoredAt(lastStored, call.key)
          IN  stored # 0 =>
                /\ ~call.issued
                /\ call.returned = stored
                /\ \A q \in inflight' \ inflight :
                      TileKey(q.sheet, q.r0, q.c0) # call.key ]_vars

\* A pass in which one call was answered from the cache and another went
\* to the network.
Wit_C1_HitBesideMiss ==
    /\ \E k \in 1..Len(lastCalls) :
          /\ ~lastCalls[k].issued
          /\ lastCalls[k].returned = StoredAt(lastStored, lastCalls[k].key)
          /\ lastCalls[k].returned # 0
    /\ \E k \in 1..Len(lastCalls) : lastCalls[k].issued

\* C2: getCell(sheet, row, col) is null when no cached tile of that sheet
\* has returned bounds around the point, and is otherwise the entry
\* data[row - r0][col - c0] of such a tile, which is the value the backend
\* holds at (sheet, row, col); the returned bounds decide, not the window
\* that was requested.
Thm_C2_GetCell ==
    \A sh \in ProbeSheets, row \in ProbeRows, col \in ProbeCols :
        LET covering == {k \in 1..Len(cache) :
                            /\ cache[k].page.sheet = sh
                            /\ cache[k].page.r0 <= row /\ row <= cache[k].page.r1
                            /\ cache[k].page.c0 <= col /\ col <= cache[k].page.c1}
            v == getCell(cache, sh, row, col)
        IN  IF covering = {}
            THEN v = null
            ELSE /\ \E k \in covering :
                      v = cache[k].page.data[row - cache[k].page.r0 + 1]
                                            [col - cache[k].page.c0 + 1]
                 /\ v # null
                 /\ v.sheet = sh /\ v.row = row /\ v.col = col

\* A cached tile whose returned last column is short of the requested one:
\* its last column is served, the column after it is not.
Wit_C2_NarrowerThanRequested ==
    \E k \in 1..Len(cache) :
        LET page == cache[k].page
        IN  /\ page.c0 <= page.c1
            /\ page.c1 < page.c0 + TileCols - 1
            /\ getCell(cache, page.sheet, page.r0, page.c1) # null
            /\ getCell(cache, page.sheet, page.r0, page.c1 + 1) = null

SheetSwitch == TabClick \/ (ActiveSheetChange /\ sheet' # sheet)

Claim_C4_FileSwitchClears ==
    [][ fileId' # fileId =>
          /\ cache' = <<>>
          /\ \A sh \in ProbeSheets, row \in ProbeRows, col \in ProbeCols :
                getCell(cache', sh, row, col) = null ]_vars

\* C5: getCell for the sheet shown never serves a value out of a tile of
\* another sheet, whatever late tiles the cache holds; and a switch of
\* sheet leaves every request in flight.
Thm_C5_StaleTileNeverServed ==
    [][ /\ \A row \in ProbeRows, col \in ProbeCols :
              LET v == getCell(cache', sheet', row, col)
              IN  v # null =>
                    /\ v.sheet = sheet'
                    /\ \E k \in 1..Len(cache') :
                          /\ cache'[k].page.sheet = sheet'
                          /\ \E i \in DOMAIN cache'[k].page.data :
                               \E j \in DOMAIN cache'[k].page.data[i] :
                                  cache'[k].page.data[i][j] = v
        /\ sheet' # sheet =>
              \A q \in inflight : \E q2 \in inflight' : q2.id = q.id ]_vars

\* A tile of the sheet left behind was stored after the switch and comes
\* first in the cache, covering a cell that getCell serves from the tile
\* of the sheet shown.
Wit_C5_StaleTileFirst ==
    /\ Len(cache) >= 2
    /\ cache[1].page.sheet # sheet
    /\ \E q \in 1..Len(cache) : cache[q].page.sheet = sheet
    /\ \E row \in ProbeRows, col \in ProbeCols :
          /\ pageCovers(cache[1].page, row, col)
          /\ getCell(cache, sheet, row, col) # null

\* ------------------------------------------------------------------
\* Claims about the list of the Preview (under SpecPreview)
\* ------------------------------------------------------------------

\* A raw cell reference is malformed when one of its pieces between "!",
\* trimmed, is not a cell address.
MalformedRef(raw) ==
    \E n \in 1..(Cardinality(Cuts(raw)) - 1) :
        ~InGrammar(Trimmed(PieceOf(raw, n)))

\* C11 as stated: once the results are shown, every finding with a status
\* the list shows whose sheet is unknown or whose raw cell reference is
\* malformed is an entry of the list, disabled, with the diagnostic of its
\* defect (sheet not found, invalid cell format).
Claim_C11_IneligibleStaysListed ==
    (~pvLoading /\ pvError = nullString) =>
        \A i \in 1..Len(preview) :
            LET r == preview[i]
                unknown == ~KnownSheet(r.excel_match.Source_Sheet, availableSheets)
                malformed == MalformedRef(r.excel_match.Excel_Cell_used_for_match)
            IN  (/\ toLowerCase(r.validation_status) = Matched
                 /\ (unknown \/ malformed)) =>
                    \E k \in 1..Len(listView) :
                        /\ listView[k].id = r.pdf_value_id
                        /\ listView[k].disabled
                        /\ unknown => listView[k].sheetNotFound
                        /\ malformed => listView[k].invalidCellFormat

\* ------------------------------------------------------------------
\* Claims about the zoom of the grid viewer (under SpecZoom)
\* ------------------------------------------------------------------

\* C12: zoom is always an integer in [50, 200]; zoom-in adds 10 but leaves
\* 200 as it is, zoom-out takes 10 off but leaves 50 as it is, and reset
\* sets 100.
Thm_C12_ZoomRange ==
    [][ /\ zoom \in 50..200 /\ zoom' \in 50..200
        /\ handleZoomIn => zoom' = (IF zoom = 200 THEN 200 ELSE zoom + 10)
        /\ handleZoomOut => zoom' = (IF zoom = 50 THEN 50 ELSE zoom - 10)
        /\ handleZoomReset => zoom' = 100 ]_vars

\* The grid is shown at the upper end of the range, where zoom-in is still
\* offered, after a pass that was started there.
Wit_C12_AtUpperEnd ==
    /\ zoom = 200
    /\ Rendered
    /\ Len(lastCalls) > 0

\* ------------------------------------------------------------------
\* Claims about the viewport of the grid viewer
\* ------------------------------------------------------------------

\* C13 as stated (under Spec): right after a sheet switch or a change of
\* fileId, zoom is 100 and the recorded scroll offsets are 0.
Claim_C13_ViewportReset ==
    [][ (SheetSwitch \/ fileId' # fileId) =>
            /\ zoom' = 100
            /\ scrollPos' = ZeroScroll ]_vars

\* C14 as stated (under SpecScroll): the offsets passed to scrollTo lie
\* between 0 and content size minus viewport size, in both directions
\* (half pixels on both sides).
Claim_C14_ScrollWithinContent ==
    lastScrollTo # null =>
        /\ 0 <= lastScrollTo.scrollTop
        /\ lastScrollTo.scrollTop
             <= 2 * (lastScrollTo.rows * ROW_HEIGHT(lastScrollTo.zoom) - clientHeight)
        /\ 0 <= lastScrollTo.scrollLeft
        /\ lastScrollTo.scrollLeft
             <= 2 * (lastScrollTo.cols * COL_WIDTH(lastScrollTo.zoom) - clientWidth)

\* C15 (under SpecScroll): a scrollTo made for the target cell and zoom of
\* the scrollTo before it passes the same offsets, wherever the grid was
\* scrolled to in between.
Thm_C15_ScrollIdempotent ==
    [][ (/\ ScrollFire
         /\ Rendered
         /\ lastScrollTo # null
         /\ lastScrollTo'.again) =>
            /\ lastScrollTo'.scrollTop = lastScrollTo.scrollTop
            /\ lastScrollTo'.scrollLeft = lastScrollTo.scrollLeft ]_vars

\* The second of two scrollTo calls for one target and zoom, made after
\* the user had scrolled away from where the first had left the grid.
Wit_C15_SecondAfterUserScroll ==
    /\ lastScrollTo # null
    /\ lastScrollTo.again
    /\ lastScrollTo.from # [scrollLeft |-> lastScrollTo.scrollLeft,
                            scrollTop |-> lastScrollTo.scrollTop]

\* ------------------------------------------------------------------
\* Claims about the overlay of the validation page (under SpecOverlay)
\* ------------------------------------------------------------------

\* The value of pdfValues with the given id.
ValueOf(id) == pdfValues[CHOOSE k \in 1..Len(pdfValues) : pdfValues[k].id = id]

\* C16: every box on the overlay is the rectangle from (x1*W, y1*H) to
\* (x2*W, y2*H) of its value's four-entry bounding box, W and H the size of
\* the overlay canvas; [0.1,0.1,0.3,0.3] on 1000 by 800 is (100,80) to
\* (300,240); a bounding box of another length puts nothing on the overlay.
Thm_C16_BoxProjection ==
    /\ \A k \in 1..Len(drawn) :
        LET b == drawn[k]
            bbox == ValueOf(b.id).bounding_box
        IN  /\ Len(bbox) = 4
            /\ b.x = bbox[1] * overlayCanvas.width
            /\ b.y = bbox[2] * overlayCanvas.height
            /\ b.x + b.w = bbox[3] * overlayCanvas.width
            /\ b.y + b.h = bbox[4] * overlayCanvas.height
    /\ LET r == drawValueBoundingBox(ValueA, 1000, 800, nullString, nullString)[1]
       IN  /\ r.x = 10 * 100 /\ r.y = 10 * 80
           /\ r.x + r.w = 10 * 300 /\ r.y + r.h = 10 * 240
    /\ drawValueBoundingBox(ValueC, 1000, 800, nullString, nullString) = <<>>

\* The first drawing after the load: two boxes on the overlay, and a value
\* of the page whose bounding box has three entries.
Wit_C16_ThreeEntryBoxSkipped ==
    /\ ovEvents = 0
    /\ Len(drawn) = 2
    /\ \E k \in 1..Len(pdfValues) : pdfValues[k] = ValueC

\* C17: a box on the overlay whose id is the selected id has the selected
\* style, also when it is the hovered id; a box that is only the hovered id
\* has the hovered style; any other box has the style of its confidence.
Thm_C17_StylePrecedence ==
    \A k \in 1..Len(drawn) :
        LET b == drawn[k] IN
        /\ b.id = selectedValueId =>
              /\ b.style.strokeColor = SelectedBlue
              /\ b.style.lineWidth = 3
              /\ b.style.lineDash = <<>>
        /\ (b.id # selectedValueId /\ b.id = hoveredValueId) =>
              /\ b.style.strokeColor = HoveredViolet
              /\ b.style.lineWidth = 3
              /\ b.style.lineDash = <<5, 5>>
        /\ (b.id # selectedValueId /\ b.id # hoveredValueId) =>
              /\ b.style.strokeColor = getConfidenceColor(ValueOf(b.id).confidence)
              /\ b.style.lineWidth = 2
              /\ b.style.lineDash = <<>>

\* A box on the overlay that is both selected and hovered, beside one that
\* is neither.
Wit_C17_SelectedAndHovered ==
    /\ \E k \in 1..Len(drawn) :
        drawn[k].id = selectedValueId /\ drawn[k].id = hoveredValueId
    /\ \E k \in 1..Len(drawn) :
        drawn[k].id # selectedValueId /\ drawn[k].id # hoveredValueId

\* C18 as stated: a box in its default style whose value has a confidence c
\* is green for c >= 0.8, amber for 0.6 <= c < 0.8 and red for c < 0.6,
\* c = 0 included; it is gray only when the value has no confidence.
Claim_C18_ConfidenceColour ==
    \A k \in 1..Len(drawn) :
        LET b == drawn[k]
            conf == ValueOf(b.id).confidence
        IN  (b.id # selectedValueId /\ b.id # hoveredValueId) =>
              /\ (conf.defined /\ conf.c >= 80) => b.style.strokeColor = Green
              /\ (conf.defined /\ conf.c >= 60 /\ conf.c < 80) =>
                     b.style.strokeColor = Amber
              /\ (conf.defined /\ conf.c < 60) => b.style.strokeColor = Red
              /\ b.style.strokeColor = Gray => ~conf.defined

\* The ids of the boxes a pointer event is tested against.
HitTestedIds ==
    LET pvs == pageValues(filteredPdfValues(pdfValues, filters, sorting),
                          currentPage)
    IN  {pvs[k].id : k \in {j \in 1..Len(pvs) : Len(pvs[j].bounding_box) = 4}}

DrawnIds == {drawn[k].id : k \in 1..Len(drawn)}

\* Whether a box on the overlay contains the pixel (px, py), bounds included.
ShownContains(b, px, py) ==
    /\ 10 * px >= b.x /\ 10 * px <= b.x + b.w
    /\ 10 * py >= b.y /\ 10 * py <= b.y + b.h

\* The first box on the overlay, in drawing order, containing the pixel.
FirstShown(shown, px, py) ==
    IF \E k \in 1..Len(shown) : ShownContains(shown[k], px, py)
    THEN shown[CHOOSE k \in 1..Len(shown) :
                   /\ ShownContains(shown[k], px, py)
                   /\ \A j \in 1..(k - 1) : ~ShownContains(shown[j], px, py)].id
    ELSE nullString

\* C19 as stated: at every click on the overlay the boxes tested are the
\* boxes drawn, and the click selects the first drawn box containing the
\* point, or clears the selection when no drawn box contains it.
Claim_C19_ClickHitsWhatIsDrawn ==
    [][ (ovEvents' # ovEvents /\ lastClick' # lastClick) =>
            /\ HitTestedIds = DrawnIds
            /\ selectedValueId'
                 = FirstShown(lastClick'.shown, lastClick'.px, lastClick'.py) ]_vars

\* ------------------------------------------------------------------
\* Claim about the preload after a sheet switch (under SpecLive)
\* ------------------------------------------------------------------

\* C20 as stated: whenever a tab click or the activeSheet prop has switched
\* the viewer to a sheet while metadata is loaded, preloadVisibleTiles
\* eventually runs for that sheet.
Claim_C20_SwitchLeadsToPreload ==
    (awaitPreload # <<>>) ~> (awaitPreload = <<>>)

\* The bound on tile objects never keeps a set timer from firing here.
TimerNeverHeldBack ==
    timer.pending =>
        LET calls == preloadCalls(preloadOrigins(meta, sheet, zoom), 1, cache,
                                  timer.file, sheet, nextId)
        IN  nextId + Cardinality({k \in 1..Len(calls) : calls[k].issued}) - 1
              <= MaxReq

\* ------------------------------------------------------------------
\* Claims about the requests of the grid viewer
\* ------------------------------------------------------------------

\* C21 as stated (under Spec): no two requests in flight together have the
\* same key (sheet, r0, c0).
Claim_C21_NoDuplicateRequests ==
    \A q1, q2 \in inflight :
        TileKey(q1.sheet, q1.r0, q1.c0) = TileKey(q2.sheet, q2.r0, q2.c0)
            => q1 = q2

\* C22 (under Spec): when a request of a preload pass settles, a page that
\* arrived is in the cache under its key, and if the request was the last
\* one its pass was waiting for, tilesLoaded is true, whether the request
\* and the others of the pass succeeded or failed.
Thm_C22_FailuresDoNotAbort ==
    [][ \A q \in inflight :
            q.id \notin {r.id : r \in inflight'} =>
                LET key == TileKey(q.sheet, q.r0, q.c0) IN
                /\ {q.id} \in passes => tilesLoaded'
                /\ StoredAt(lastStored', key) = q.id =>
                      /\ CacheHas(cache', key)
                      /\ CacheGet(cache', key) = ServerPage(q) ]_vars

\* The first pass had two requests; one failed, the other arrived and is
\* cached, and tilesLoaded is true.
Wit_C22_OneOfTwoFailed ==
    /\ userEvents = 0
    /\ nextId = 3
    /\ inflight = {}
    /\ passes = {}
    /\ Len(cache) = 1
    /\ tilesLoaded

\* C23 as stated (under SpecScroll): whenever a scroll timer calls scrollTo
\* on the grid, tilesLoaded is true and no request of a preload pass for
\* the sheet shown is still in flight.
Claim_C23_ScrollAfterPreload ==
    [][ (ScrollFire /\ Rendered) =>
            /\ tilesLoaded
            /\ \A q \in inflight : q.sheet # sheet ]_vars

\* The rows and columns preloadVisibleTiles covers on the sheet shown.
VisibleRows ==
    Min(CeilDiv(Height - HEADER_SIZE - FOOTER_HEIGHT, ROW_HEIGHT(zoom)) + 5,
        dims(meta, sheet).rows)
VisibleCols ==
    Min(CeilDiv(Width - HEADER_SIZE, COL_WIDTH(zoom)) + 5,
        dims(meta, sheet).cols)

\* The window fetchTile asks for under a key.
WindowHas(key, row, col) ==
    /\ key[2] <= row /\ row <= key[2] + TileRows - 1
    /\ key[3] <= col /\ col <= key[3] + TileCols - 1

\* C24 (under Spec): the fetchTile calls of a preload pass have the keys
\* of exactly the origins (1 + i*tileRows, 1 + j*tileCols) below the
\* visible rows and columns of the sheet shown, none twice; each request
\* sent asks for [r0, r0+tileRows-1] x [c0, c0+tileCols-1]; every visible
\* cell is in the window of exactly one call.
Thm_C24_OneFetchPerOrigin ==
    lastCalls # <<>> =>
        /\ \A j, k \in 1..Len(lastCalls) :
              lastCalls[j].key = lastCalls[k].key => j = k
        /\ {lastCalls[k].key : k \in 1..Len(lastCalls)}
             = {TileKey(sheet, 1 + i * TileRows, 1 + j * TileCols) :
                  i \in {x \in 0..VisibleRows : x * TileRows < VisibleRows},
                  j \in {x \in 0..VisibleCols : x * TileCols < VisibleCols}}
        /\ \A k \in 1..Len(lastCalls) :
              lastCalls[k].issued =>
                 LET q == lastCalls[k].request IN
                 /\ q.sheet = sheet
                 /\ q.r0 = lastCalls[k].key[2] /\ q.r1 = q.r0 + TileRows - 1
                 /\ q.c0 = lastCalls[k].key[3] /\ q.c1 = q.c0 + TileCols - 1
        /\ \A row \in 1..VisibleRows, col \in 1..VisibleCols :
              Cardinality({k \in 1..Len(lastCalls) :
                              WindowHas(lastCalls[k].key, row, col)}) = 1

\* A pass at a zoom other than 100 with two origins, both sent.
Wit_C24_TwoOrigins ==
    /\ Len(lastCalls) = 2
    /\ lastCalls[1].issued /\ lastCalls[2].issued
    /\ zoom # 100

\* ------------------------------------------------------------------
\* Claim about the size of the overlay (under SpecOverlay)
\* ------------------------------------------------------------------

\* C25 as stated: when, after a zoom or page change, the last page image
\* created has loaded and resized the page canvas, the overlay canvas has
\* the width and height of the page canvas and its boxes are drawn for
\* that size.
Claim_C25_OverlayFollowsPageCanvas ==
    [][ (/\ ImgLoaded
         /\ imgLoads' = <<>>
         /\ (ovZoom # 100 \/ currentPage # 0)) =>
            /\ overlayCanvas' = mainCanvas'
            /\ \A k \in 1..Len(drawn') :
                  LET b == drawn'[k]
                      bbox == ValueOf(b.id).bounding_box
                  IN  /\ b.x = bbox[1] * mainCanvas'.width
                      /\ b.y = bbox[2] * mainCanvas'.height
                      /\ b.x + b.w = bbox[3] * mainCanvas'.width
                      /\ b.y + b.h = bbox[4] * mainCanvas'.height ]_vars

\* C26 (under Spec): when a request settles without its page being stored
\* (it failed), the cache is as it was; if its key was not cached, getCell
\* still returns null for the cells it returned null for, and fetchTile for
\* the key sends a request.
Thm_C26_FailureLeavesCache ==
    [][ \A q \in inflight :
            LET key == TileKey(q.sheet, q.r0, q.c0) IN
            (/\ q.id \notin {r.id : r \in inflight'}
             /\ StoredAt(lastStored', key) # q.id) =>
                /\ cache' = cache
                /\ ~CacheHas(cache, key) =>
                      /\ fetchTile(cache', fileId', q.sheet, q.r0, q.c0,
                                   nextId').issued
                      /\ \A row \in ProbeRows, col \in ProbeCols :
                            getCell(cache, q.sheet, row, col) = null
                               => getCell(cache', q.sheet, row, col) = null ]_vars

\* After zoom-in as the only click: the first of four requests is gone, the
\* cache is empty, and the pass after it has requested its key again.
Wit_C26_RequestedAgain ==
    /\ userEvents = 1
    /\ zoom # 100
    /\ cache = <<>>
    /\ nextId = 5
    /\ Cardinality(inflight) = 3
    /\ Len(lastCalls) = 2
    /\ lastCalls[1].issued /\ lastCalls[2].issued


\* ------------------------------------------------------------------
\* C27: a failed metadata request leaves the viewer with the error message
\* set and loading false, so that the error panel is rendered and not the
\* grid; the message stays until the fileId prop changes; and while meta
\* is empty no preload timer is armed and no tile request is sent.
\* ------------------------------------------------------------------
Thm_C27_MetaFailureBlocks ==
    [][ /\ ViewerMetaRejected =>
              /\ error' # nullString
              /\ ~loading'
              /\ ~Rendered'
        /\ (error # nullString /\ fileId' = fileId) =>
              /\ error' = error
              /\ ~Rendered'
        /\ Len(meta') = 0 =>
              /\ ~timer'.pending
              /\ inflight' = {}
              /\ nextId' = 1 ]_vars

Wit_C27_ErrorPanel ==
    /\ error # nullString
    /\ ~loading
    /\ Len(meta) = 0
    /\ metaReqs = <<>>
    /\ userEvents = MaxUserEvents
    /\ activeSheet # <<>>


\* C28 as stated (under Spec): once every metadata request has settled and
\* none has failed since the last change of fileId, meta holds the sheets
\* of the file the fileId prop names, in whatever order the responses
\* came.
Claim_C28_LatestFileWins ==
    (metaReqs = <<>> /\ error = nullString) => meta = FileSheets(fileId)


\* C30 as stated (under SpecScroll): a cell of the rendered grid is drawn
\* highlighted exactly when some entry of highlightedCells for the shown
\* sheet has a cell text that a1ToRC parses to its row and column.
Claim_C30_HighlightMatchesParse ==
    (Rendered /\ sheet # <<>>) =>
        \A r \in 1..dims(meta, sheet).rows, c \in 1..dims(meta, sheet).cols :
            isHighlighted(highlightedCells, sheet, r, c)
              <=> \E k \in 1..Len(highlightedCells) :
                     /\ highlightedCells[k].sheet = sheet
                     /\ a1ToRC(JsString(highlightedCells[k].cell))
                           = [row |-> r, col |-> c]


\* C29 as stated (under SpecFollow): whenever a finding is active and the
\* viewer has its metadata, the viewer comes to show the grid of the
\* sheet the finding names (its own spelling, or a metadata sheet that
\* differs in letter case only) with every cell of the finding
\* highlighted.  Only behaviours that leave a click of the
\* budget unused are held to it, so that a viewer that stops short of the
\* finding does so by the code and not by the budget.
FindingShown ==
    /\ active # null
    /\ Rendered
    /\ \/ sheet = active.sheet
       \/ /\ sheet \in Range(SheetNames(meta))
          /\ toLowerCase(sheet) = toLowerCase(active.sheet)
    /\ \A i \in 1..Len(active.cells) :
          LET parsed == a1ToRC(JsString(active.cells[i]))
          IN  /\ parsed # null
              /\ isHighlighted(highlightedCells, sheet, parsed.row, parsed.col)

Claim_C29_ActiveFindingShown ==
    (active # null /\ Len(meta) > 0 /\ userEvents < MaxFollowEvents)
        ~> (FindingShown \/ userEvents = MaxFollowEvents)

============================================================================
